---- MODULE Spec2Model ----
(***************************************************************************)
(* A model of blink's CSSSelectorParser (css_selector_parser.cc): the      *)
(* recursive descent from a selector list down to simple selectors, the    *)
(* forgiving and non-forgiving nested lists, the An+B micro-grammar and    *)
(* namespace resolution.  Every Consume* operator takes the token range it *)
(* reads and the parser object and returns what the C++ method returns     *)
(* together with the range and the parser object as the method leaves      *)
(* them.                                                                   *)
(***************************************************************************)
EXTENDS Integers, Sequences, FiniteSets, TLC

VARIABLES
    input,      \* the token sequence handed to the entry point
    n_pieces,   \* how many fragments the input was put together from
    mode,       \* context_->Mode()
    sheet,      \* the StyleSheetContents the parser is given
    phase,      \* "build" while the input is put together, then the entry point run
    result      \* what the entry point returned, with the parser as it was left

vars == <<input, n_pieces, mode, sheet, phase, result>>

(***************************************************************************)
(* Strings.  A String / AtomicString is the sequence of its characters, so *)
(* that StartsWith, Substring and ToIntStrict are computed on it.  The     *)
(* null atom is not a string of characters: it is the one-element sequence *)
(* below, which no token value equals.                                     *)
(***************************************************************************)
Str_is == <<"i", "s">>
Str_where == <<"w", "h", "e", "r", "e">>
Str_has == <<"h", "a", "s">>
Str_not == <<"n", "o", "t">>
Str_host == <<"h", "o", "s", "t">>
Str_host_context == <<"h", "o", "s", "t", "-", "c", "o", "n", "t", "e", "x", "t">>
Str__webkit_any == <<"-", "w", "e", "b", "k", "i", "t", "-", "a", "n", "y">>
Str_cue == <<"c", "u", "e">>
Str_slotted == <<"s", "l", "o", "t", "t", "e", "d">>
Str_part == <<"p", "a", "r", "t">>
Str_before == <<"b", "e", "f", "o", "r", "e">>
Str_after == <<"a", "f", "t", "e", "r">>
Str_marker == <<"m", "a", "r", "k", "e", "r">>
Str_placeholder == <<"p", "l", "a", "c", "e", "h", "o", "l", "d", "e", "r">>
Str_selection == <<"s", "e", "l", "e", "c", "t", "i", "o", "n">>
Str_hover == <<"h", "o", "v", "e", "r">>
Str_focus == <<"f", "o", "c", "u", "s">>
Str_active == <<"a", "c", "t", "i", "v", "e">>
Str_focus_visible == <<"f", "o", "c", "u", "s", "-", "v", "i", "s", "i", "b", "l", "e">>
Str_focus_within == <<"f", "o", "c", "u", "s", "-", "w", "i", "t", "h", "i", "n">>
Str_nth_child == <<"n", "t", "h", "-", "c", "h", "i", "l", "d">>
Str_nth_last_child == <<"n", "t", "h", "-", "l", "a", "s", "t", "-", "c", "h", "i", "l", "d">>
Str_nth_of_type == <<"n", "t", "h", "-", "o", "f", "-", "t", "y", "p", "e">>
Str_nth_last_of_type == <<"n", "t", "h", "-", "l", "a", "s", "t", "-", "o", "f", "-", "t", "y", "p", "e">>
Str_lang == <<"l", "a", "n", "g">>
Str_dir == <<"d", "i", "r">>
Str_highlight == <<"h", "i", "g", "h", "l", "i", "g", "h", "t">>
Str_first_line == <<"f", "i", "r", "s", "t", "-", "l", "i", "n", "e">>
Str_first_letter == <<"f", "i", "r", "s", "t", "-", "l", "e", "t", "t", "e", "r">>
Str_window_inactive == <<"w", "i", "n", "d", "o", "w", "-", "i", "n", "a", "c", "t", "i", "v", "e">>
Str_enabled == <<"e", "n", "a", "b", "l", "e", "d">>
Str_disabled == <<"d", "i", "s", "a", "b", "l", "e", "d">>
Str__internal_relative_anchor == <<"-", "i", "n", "t", "e", "r", "n", "a", "l", "-", "r", "e", "l", "a", "t", "i", "v", "e", "-", "a", "n", "c", "h", "o", "r">>
Str__webkit_ == <<"-", "w", "e", "b", "k", "i", "t", "-">>
Str__internal_ == <<"-", "i", "n", "t", "e", "r", "n", "a", "l", "-">>
Str___ == <<"-", "-">>
Str__webkit_foo == <<"-", "w", "e", "b", "k", "i", "t", "-", "f", "o", "o">>
Str__webkit_clear_button == <<"-", "w", "e", "b", "k", "i", "t", "-", "c", "l", "e", "a", "r", "-", "b", "u", "t", "t", "o", "n">>

Str__moz_foo == <<"-", "m", "o", "z", "-", "f", "o", "o">>
Str__internal_foo == <<"-", "i", "n", "t", "e", "r", "n", "a", "l", "-", "f", "o", "o">>
Str___foo == <<"-", "-", "f", "o", "o">>

Str_foo == <<"f", "o", "o">>
Str_div == <<"d", "i", "v">>
Str_a == <<"a">>
Str_b == <<"b">>
Str_c == <<"c">>
Str_x == <<"x">>
Str_ns == <<"n", "s">>
Str_bogus == <<"b", "o", "g", "u", "s">>
Str_odd == <<"o", "d", "d">>
Str_even == <<"e", "v", "e", "n">>
Str_n == <<"n">>
Str__n == <<"-", "n">>
Str_n_ == <<"n", "-">>
Str_n_3 == <<"n", "-", "3">>
Str_n_x == <<"n", "-", "x">>
Str_i == <<"i">>
Str_s == <<"s">>


g_null_atom == <<"<null>">>
g_empty_atom == <<>>
g_star_atom == <<"*">>

\* CSSSelector::UniversalSelectorAtom(): the local name of `*` is the null atom.
UniversalSelectorAtom == g_null_atom

IsNull(s) == s = g_null_atom
IsEmpty(s) == s = g_null_atom \/ s = g_empty_atom

\* String::length(): a null string has length 0.
Length(s) == IF IsNull(s) THEN 0 ELSE Len(s)

StartsWith(s, prefix) ==
    /\ ~IsNull(s)
    /\ Len(s) >= Len(prefix)
    /\ SubSeq(s, 1, Len(prefix)) = prefix

\* String::Substring(pos): the characters from 0-based position pos on.
Substring(s, pos) == IF IsNull(s) THEN g_empty_atom ELSE SubSeq(s, pos + 1, Len(s))

\* s[i] with a 0-based i; past the end it is the NUL character.
CharAt(s, i) == IF IsNull(s) \/ i >= Len(s) THEN "NUL" ELSE s[i + 1]

UpperCaseLetters ==
    [c \in {"A", "B", "D", "E", "I", "N", "O", "S", "V"} |->
        CASE c = "A" -> "a" [] c = "B" -> "b" [] c = "D" -> "d" [] c = "E" -> "e"
          [] c = "I" -> "i" [] c = "N" -> "n" [] c = "O" -> "o" [] c = "S" -> "s"
          [] c = "V" -> "v"]

ToASCIILower(c) == IF c \in DOMAIN UpperCaseLetters THEN UpperCaseLetters[c] ELSE c

LowerASCII(s) == IF IsNull(s) THEN s ELSE [i \in 1..Len(s) |-> ToASCIILower(s[i])]

EqualIgnoringASCIICase(s, t) == ~IsNull(s) /\ LowerASCII(s) = LowerASCII(t)

IsASCIIAlphaCaselessEqual(c, lower) == ToASCIILower(c) = lower

Digits == {"0", "1", "2", "3", "4", "5", "6", "7", "8", "9"}

DigitValue(c) ==
    CASE c = "0" -> 0 [] c = "1" -> 1 [] c = "2" -> 2 [] c = "3" -> 3 [] c = "4" -> 4
      [] c = "5" -> 5 [] c = "6" -> 6 [] c = "7" -> 7 [] c = "8" -> 8 [] c = "9" -> 9

\* std::numeric_limits<int>::max() and min().
IntMax == 2147483647
IntMin == -IntMax - 1

ClampTo(v) == IF v > IntMax THEN IntMax ELSE IF v < IntMin THEN IntMin ELSE v

\* ClampTo<int>(token.NumericValue()).  The numeric value of a token is a
\* double: numeric_value holds it when it lies in the range of int, and
\* numeric_beyond_int tells when it lies above (1) or below (-1) that range.
ClampNumericValue(token) ==
    IF token.numeric_beyond_int > 0 THEN IntMax
    ELSE IF token.numeric_beyond_int < 0 THEN IntMin
    ELSE ClampTo(token.numeric_value)

\* The digits of s from position i (1-based) on, accumulated as a non-positive
\* number so that the most negative int is reached without overflow; acc is
\* "overflow" once the value has left the range of int.
RECURSIVE AccumulateDigits(_, _, _, _)
AccumulateDigits(s, i, acc, negative) ==
    IF i > Len(s) THEN [valid |-> TRUE, value |-> acc]
    ELSE IF s[i] \notin Digits THEN [valid |-> FALSE, value |-> 0]
    ELSE LET d == DigitValue(s[i])
             limit == IntMax \div 10
             fits == \/ acc > -limit
                     \/ acc = -limit /\ d <= (IF negative THEN 8 ELSE 7)
         IN  IF ~fits THEN [valid |-> FALSE, value |-> 0]
             ELSE AccumulateDigits(s, i + 1, acc * 10 - d, negative)

\* String::ToIntStrict(&valid): an optional sign, then digits and nothing else.
ToIntStrict(s) ==
    LET negative == Length(s) > 0 /\ s[1] = "-"
        signed == Length(s) > 0 /\ s[1] \in {"-", "+"}
        first == IF signed THEN 2 ELSE 1
        r == AccumulateDigits(s, first, 0, negative)
    IN  IF Length(s) < first THEN [valid |-> FALSE, value |-> 0]
        ELSE IF ~r.valid THEN [valid |-> FALSE, value |-> 0]
        ELSE [valid |-> TRUE, value |-> IF negative THEN r.value ELSE -r.value]

(***************************************************************************)
(* Tokens and token ranges (CSSParserToken, CSSParserTokenRange).  A range *)
(* is the sequence of the tokens not yet consumed; a method that takes the *)
(* range by reference returns the range it leaves.                         *)
(***************************************************************************)
Token(type, value, delimiter, numeric_value, numeric_value_type, numeric_sign) ==
    [type |-> type, value |-> value, delimiter |-> delimiter,
     numeric_value |-> numeric_value, numeric_value_type |-> numeric_value_type,
     numeric_beyond_int |-> 0, numeric_sign |-> numeric_sign, hash_type |-> "kHashTokenId"]

PlainToken(type) == Token(type, g_null_atom, "", 0, "kIntegerValueType", "kNoSign")

EOFToken == PlainToken("kEOFToken")
WhitespaceToken == PlainToken("kWhitespaceToken")
CommaToken == PlainToken("kCommaToken")
ColonToken == PlainToken("kColonToken")
RightParenthesisToken == PlainToken("kRightParenthesisToken")
LeftBracketToken == PlainToken("kLeftBracketToken")
RightBracketToken == PlainToken("kRightBracketToken")
IdentToken(name) == Token("kIdentToken", name, "", 0, "kIntegerValueType", "kNoSign")
FunctionToken(name) == Token("kFunctionToken", name, "", 0, "kIntegerValueType", "kNoSign")
DelimiterToken(c) == Token("kDelimiterToken", g_null_atom, c, 0, "kIntegerValueType", "kNoSign")
NumberToken(v, value_type, sign) == Token("kNumberToken", g_null_atom, "", v, value_type, sign)
DimensionToken(v, value_type, sign, unit) == Token("kDimensionToken", unit, "", v, value_type, sign)

\* A token whose numeric value lies beyond the range of int, above it for a
\* token without a minus sign and below it for one with a minus sign.
BeyondInt(token) ==
    [token EXCEPT !.numeric_beyond_int = IF token.numeric_sign = "kMinusSign" THEN -1 ELSE 1]

\* CSSParserToken::GetBlockType()
GetBlockType(token) ==
    IF token.type \in {"kFunctionToken", "kLeftParenthesisToken", "kLeftBracketToken",
                       "kLeftBraceToken"}
    THEN "kBlockStart"
    ELSE IF token.type \in {"kRightParenthesisToken", "kRightBracketToken",
                            "kRightBraceToken"}
    THEN "kBlockEnd"
    ELSE "kNotBlock"

\* CSSParserToken::Delimiter(); the NUL character for a token that is no delimiter.
Delimiter(token) == IF token.type = "kDelimiterToken" THEN token.delimiter ELSE "NUL"

AtEnd(range) == range = <<>>

\* Peek(offset): the token offset places ahead, the EOF token past the end.
PeekAt(range, offset) == IF offset + 1 > Len(range) THEN EOFToken ELSE range[offset + 1]
Peek(range) == PeekAt(range, 0)

\* Consume(): at the end the range stays where it is.
Consume(range) == IF AtEnd(range) THEN range ELSE Tail(range)

RECURSIVE ConsumeWhitespace(_)
ConsumeWhitespace(range) ==
    IF Peek(range).type = "kWhitespaceToken" THEN ConsumeWhitespace(Tail(range)) ELSE range

ConsumeIncludingWhitespace(range) == ConsumeWhitespace(Consume(range))

\* The loop of ConsumeBlock(): the number of tokens consumed and the nesting
\* level it ends with (not 0 when the range ended inside the block).
RECURSIVE ScanBlock(_, _, _)
ScanBlock(range, i, nesting_level) ==
    LET block_type == GetBlockType(range[i])
        level == IF block_type = "kBlockStart" THEN nesting_level + 1
                 ELSE IF block_type = "kBlockEnd" THEN nesting_level - 1
                 ELSE nesting_level
    IN  IF level # 0 /\ i < Len(range) THEN ScanBlock(range, i + 1, level)
        ELSE [consumed |-> i, nesting_level |-> level]

\* ConsumeBlock() giving the token that opens the block as the first token of
\* the block.
ConsumeBlock_FromOpening(range) ==
    LET scan == ScanBlock(range, 1, 0)
        last == IF scan.nesting_level # 0 THEN scan.consumed ELSE scan.consumed - 1
    IN  [block |-> SubSeq(range, 1, last),
         range |-> SubSeq(range, scan.consumed + 1, Len(range))]

\* ConsumeBlock(): the tokens inside the block that starts the range, and the
\* range after the block's closing token.
ConsumeBlock(range) ==
    LET scan == ScanBlock(range, 1, 0)
        last == IF scan.nesting_level # 0 THEN scan.consumed ELSE scan.consumed - 1
    IN  [block |-> SubSeq(range, 2, last),
         range |-> SubSeq(range, scan.consumed + 1, Len(range))]

(***************************************************************************)
(* The collaborators: the stylesheet's namespace table, the runtime        *)
(* features and the pseudo-type name table.                                *)
(***************************************************************************)
Uri_U == <<"U">>
Uri_D == <<"D">>

\* style_sheet == nullptr
NoStyleSheet ==
    [is_null |-> TRUE, default_namespace_ |-> g_star_atom,
     namespaces_ |-> [pfx \in {} |-> g_null_atom]]

\* @namespace ns "U";  (no default namespace: it stays the wildcard)
PrefixStyleSheet ==
    [is_null |-> FALSE, default_namespace_ |-> g_star_atom,
     namespaces_ |-> [pfx \in {Str_ns} |-> Uri_U]]

\* @namespace "D"; @namespace ns "U";
DefaultNsStyleSheet ==
    [is_null |-> FALSE, default_namespace_ |-> Uri_D,
     namespaces_ |-> [pfx \in {Str_ns} |-> Uri_U]]

\* StyleSheetContents::NamespaceURIFromPrefix
NamespaceURIFromPrefix(style_sheet, prefix) ==
    IF prefix \in DOMAIN style_sheet.namespaces_
    THEN style_sheet.namespaces_[prefix]
    ELSE g_null_atom

CSSPseudoHasEnabled == TRUE
CSSMarkerNestedPseudoElementEnabled == TRUE
WebKitScrollbarStylingEnabled == TRUE
CSSCaseSensitiveSelectorEnabled == FALSE

\* CSSSelector::NameToPseudoType: the rows of the table for the names the
\* model's inputs use; a name in no row is kPseudoUnknown.
NameToPseudoType(name, has_arguments) ==
    IF has_arguments
    THEN CASE name = Str_is -> "kPseudoIs"
           [] name = Str_where -> "kPseudoWhere"
           [] name = Str_has -> "kPseudoHas"
           [] name = Str_not -> "kPseudoNot"
           [] name = Str_host -> "kPseudoHost"
           [] name = Str_host_context -> "kPseudoHostContext"
           [] name = Str__webkit_any -> "kPseudoAny"
           [] name = Str_cue -> "kPseudoCue"
           [] name = Str_slotted -> "kPseudoSlotted"
           [] name = Str_part -> "kPseudoPart"
           [] name = Str_nth_child -> "kPseudoNthChild"
           [] name = Str_nth_last_child -> "kPseudoNthLastChild"
           [] name = Str_nth_of_type -> "kPseudoNthOfType"
           [] name = Str_nth_last_of_type -> "kPseudoNthLastOfType"
           [] name = Str_lang -> "kPseudoLang"
           [] name = Str_dir -> "kPseudoDir"
           [] name = Str_highlight -> "kPseudoHighlight"
           [] OTHER -> "kPseudoUnknown"
    ELSE CASE name = Str_after -> "kPseudoAfter"
           [] name = Str_before -> "kPseudoBefore"
           [] name = Str_marker -> "kPseudoMarker"
           [] name = Str_placeholder -> "kPseudoPlaceholder"
           [] name = Str_selection -> "kPseudoSelection"
           [] name = Str_first_line -> "kPseudoFirstLine"
           [] name = Str_first_letter -> "kPseudoFirstLetter"
           [] name = Str_hover -> "kPseudoHover"
           [] name = Str_focus -> "kPseudoFocus"
           [] name = Str_active -> "kPseudoActive"
           [] name = Str_focus_visible -> "kPseudoFocusVisible"
           [] name = Str_focus_within -> "kPseudoFocusWithin"
           [] name = Str_window_inactive -> "kPseudoWindowInactive"
           [] name = Str_enabled -> "kPseudoEnabled"
           [] name = Str_disabled -> "kPseudoDisabled"
           [] name = Str_host -> "kPseudoHost"
           [] name = Str_cue -> "kPseudoWebKitCustomElement"
           [] name = Str__internal_relative_anchor -> "kPseudoRelativeAnchor"
           [] OTHER -> "kPseudoUnknown"

ScrollbarPseudoElements ==
    {"kPseudoResizer", "kPseudoScrollbar", "kPseudoScrollbarCorner",
     "kPseudoScrollbarButton", "kPseudoScrollbarThumb", "kPseudoScrollbarTrack",
     "kPseudoScrollbarTrackPiece"}

\* ParsePseudoType taking every unrecognised name that starts with a hyphen
\* for a vendor custom pseudo-element, unless it starts with -internal- or --.
ParsePseudoType_AnyHyphen(name, has_arguments) ==
    LET pseudo_type == NameToPseudoType(name, has_arguments)
    IN  IF ~WebKitScrollbarStylingEnabled /\ pseudo_type \in ScrollbarPseudoElements
        THEN "kPseudoUnknown"
        ELSE IF pseudo_type # "kPseudoUnknown" THEN pseudo_type
        ELSE IF StartsWith(name, Str__internal_) THEN "kPseudoBlinkInternalElement"
        ELSE IF StartsWith(name, Str___) THEN "kPseudoState"
        ELSE IF StartsWith(name, <<"-">>) THEN "kPseudoWebKitCustomElement"
        ELSE "kPseudoUnknown"

ParsePseudoType(name, has_arguments) ==
    LET pseudo_type == NameToPseudoType(name, has_arguments)
    IN  IF ~WebKitScrollbarStylingEnabled /\ pseudo_type \in ScrollbarPseudoElements
        THEN "kPseudoUnknown"
        ELSE IF pseudo_type # "kPseudoUnknown" THEN pseudo_type
        ELSE IF StartsWith(name, Str__webkit_) THEN "kPseudoWebKitCustomElement"
        ELSE IF StartsWith(name, Str__internal_) THEN "kPseudoBlinkInternalElement"
        ELSE IF StartsWith(name, Str___) THEN "kPseudoState"
        ELSE "kPseudoUnknown"

(***************************************************************************)
(* Selectors (CSSParserSelector / CSSSelector).  A selector is the chain   *)
(* of its simple selectors in tag-history order, the head first; nullptr   *)
(* is the empty chain.  relation is the relation of a simple selector to   *)
(* the next one of the chain.                                              *)
(***************************************************************************)
nullptr == <<>>

NewSelector ==
    [match |-> "kUnknown", pseudo_type |-> "kPseudoUnknown", value |-> g_null_atom,
     relation |-> "kSubSelector",
     tag_prefix |-> g_null_atom, tag_local |-> g_null_atom, tag_uri |-> g_null_atom,
     is_implicit |-> FALSE, attr_match |-> "kCaseSensitive", argument |-> g_null_atom,
     nth |-> <<0, 0>>, part_names |-> <<>>,
     has_selector_list |-> FALSE, selector_list |-> <<>>,
     contains_pseudo_inside_has |-> FALSE,
     contains_complex_logical_combinations_inside_has |-> FALSE]

\* QualifiedName(prefix, local_name, namespace_uri): an empty namespace is stored
\* as the null one.
TagSelector(prefix, local_name, namespace_uri, is_implicit) ==
    [NewSelector EXCEPT !.match = "kTag", !.tag_prefix = prefix, !.tag_local = local_name,
                        !.tag_uri = IF IsEmpty(namespace_uri) THEN g_null_atom
                                    ELSE namespace_uri,
                        !.is_implicit = is_implicit]

\* AnyQName() is QualifiedName(null, null, "*").
IsAnyQName(prefix, local_name, namespace_uri) ==
    prefix = g_null_atom /\ local_name = g_null_atom /\ namespace_uri = g_star_atom

PseudoElementTypes ==
    {"kPseudoAfter", "kPseudoBefore", "kPseudoFirstLetter", "kPseudoFirstLine",
     "kPseudoBackdrop", "kPseudoCue", "kPseudoMarker", "kPseudoPart",
     "kPseudoPlaceholder", "kPseudoFileSelectorButton", "kPseudoSelection",
     "kPseudoWebKitCustomElement", "kPseudoSlotted", "kPseudoHighlight"}
        \cup ScrollbarPseudoElements

\* CSSSelector::UpdatePseudoType once the name table gave pseudo_type for the
\* lower-cased name: the type is kept only if it fits the number of colons
\* written; :before, :after, :first-line and :first-letter are pseudo-elements
\* with one colon too.
SetPseudoType(selector, value, lower_value, pseudo_type, context_mode) ==
    LET match == IF /\ pseudo_type \in {"kPseudoAfter", "kPseudoBefore",
                                        "kPseudoFirstLetter", "kPseudoFirstLine"}
                    /\ selector.match = "kPseudoClass"
                 THEN "kPseudoElement"
                 ELSE selector.match
        kept == IF pseudo_type = "kPseudoUnknown" THEN "kPseudoUnknown"
                ELSE IF pseudo_type \in PseudoElementTypes
                THEN IF match = "kPseudoElement" THEN pseudo_type ELSE "kPseudoUnknown"
                ELSE IF pseudo_type = "kPseudoBlinkInternalElement"
                THEN IF match = "kPseudoElement" /\ context_mode = "kUASheetMode"
                     THEN pseudo_type ELSE "kPseudoUnknown"
                ELSE IF match = "kPseudoClass" THEN pseudo_type ELSE "kPseudoUnknown"
    IN  [selector EXCEPT !.match = match, !.pseudo_type = kept,
                         !.value = IF pseudo_type = "kPseudoState" THEN value
                                   ELSE lower_value]

\* CSSSelector::UpdatePseudoType.
UpdatePseudoType(selector, value, has_arguments, context_mode) ==
    SetPseudoType(selector, value, LowerASCII(value),
                  ParsePseudoType(LowerASCII(value), has_arguments), context_mode)

IsTreeAbidingPseudoElement(selector) ==
    /\ selector.match = "kPseudoElement"
    /\ selector.pseudo_type \in {"kPseudoBefore", "kPseudoAfter", "kPseudoMarker",
                                 "kPseudoPlaceholder", "kPseudoFileSelectorButton"}

IsAllowedAfterPart(selector) ==
    /\ selector.match = "kPseudoElement"
    /\ selector.pseudo_type \in {"kPseudoBefore", "kPseudoAfter", "kPseudoPlaceholder",
                                 "kPseudoFileSelectorButton", "kPseudoFirstLine",
                                 "kPseudoFirstLetter", "kPseudoSelection"}

\* Of one simple selector (the head of the chain it is called on).
NeedsImplicitShadowCombinatorForMatching(selector) ==
    /\ selector.match = "kPseudoElement"
    /\ selector.pseudo_type \in {"kPseudoWebKitCustomElement", "kPseudoBlinkInternalElement",
                                 "kPseudoCue", "kPseudoPlaceholder",
                                 "kPseudoFileSelectorButton", "kPseudoShadow",
                                 "kPseudoSlotted", "kPseudoPart"}

GetImplicitShadowCombinatorForMatching(selector) ==
    CASE selector.pseudo_type = "kPseudoSlotted" -> "kShadowSlot"
      [] selector.pseudo_type \in {"kPseudoWebKitCustomElement", "kPseudoBlinkInternalElement",
                                   "kPseudoCue", "kPseudoPlaceholder",
                                   "kPseudoFileSelectorButton", "kPseudoShadow"} -> "kUAShadow"
      [] selector.pseudo_type = "kPseudoPart" -> "kShadowPart"
      [] OTHER -> "kSubSelector"

IsHostPseudoSelector(selector) ==
    selector.pseudo_type \in {"kPseudoHost", "kPseudoHostContext"}

\* CSSParserSelector::AppendTagHistory: the relation is set on the last simple
\* selector of the chain, and the other chain follows it.
AppendTagHistory(chain, relation, other) ==
    [i \in 1..Len(chain) |->
        IF i = Len(chain) THEN [chain[i] EXCEPT !.relation = relation] ELSE chain[i]] \o other

\* CSSParserSelector::PrependTagSelector: the tag selector becomes the head.
PrependTagSelector(chain, prefix, local_name, namespace_uri, is_implicit) ==
    <<TagSelector(prefix, local_name, namespace_uri, is_implicit)>> \o chain

(***************************************************************************)
(* Which simple selectors may follow a pseudo-element in a compound.       *)
(***************************************************************************)
IsScrollbarPseudoClass(pseudo) ==
    pseudo \in {"kPseudoEnabled", "kPseudoDisabled", "kPseudoHover", "kPseudoActive",
                "kPseudoHorizontal", "kPseudoVertical", "kPseudoDecrement",
                "kPseudoIncrement", "kPseudoStart", "kPseudoEnd", "kPseudoDoubleButton",
                "kPseudoSingleButton", "kPseudoNoButton", "kPseudoCornerPresent",
                "kPseudoWindowInactive"}

IsUserActionPseudoClass(pseudo) ==
    pseudo \in {"kPseudoHover", "kPseudoFocus", "kPseudoFocusVisible",
                "kPseudoFocusWithin", "kPseudoActive"}

IsPseudoClassValidAfterPseudoElement(pseudo_class, compound_pseudo_element) ==
    CASE compound_pseudo_element \in ScrollbarPseudoElements ->
            IsScrollbarPseudoClass(pseudo_class)
      [] compound_pseudo_element = "kPseudoSelection" ->
            pseudo_class = "kPseudoWindowInactive"
      [] compound_pseudo_element = "kPseudoPart" ->
            IsUserActionPseudoClass(pseudo_class) \/ pseudo_class = "kPseudoState"
      [] compound_pseudo_element \in {"kPseudoWebKitCustomElement",
                                      "kPseudoBlinkInternalElement",
                                      "kPseudoFileSelectorButton"} ->
            IsUserActionPseudoClass(pseudo_class)
      [] OTHER -> FALSE

\* IsSimpleSelectorValidAfterPseudoElement taking any pseudo-element after
\* ::slotted().
IsSimpleSelectorValidAfterPseudoElement_AnyAfterSlotted(simple_selector, compound_pseudo_element) ==
    IF compound_pseudo_element = "kPseudoUnknown" THEN TRUE
    ELSE IF /\ compound_pseudo_element \in {"kPseudoAfter", "kPseudoBefore"}
            /\ simple_selector.pseudo_type = "kPseudoMarker"
            /\ CSSMarkerNestedPseudoElementEnabled
    THEN TRUE
    ELSE IF compound_pseudo_element = "kPseudoSlotted"
    THEN simple_selector.match = "kPseudoElement"
    ELSE IF compound_pseudo_element = "kPseudoPart" /\ IsAllowedAfterPart(simple_selector)
    THEN TRUE
    ELSE IF simple_selector.match # "kPseudoClass" THEN FALSE
    ELSE IF simple_selector.pseudo_type \in {"kPseudoIs", "kPseudoWhere", "kPseudoNot",
                                             "kPseudoHas"}
    THEN TRUE
    ELSE IsPseudoClassValidAfterPseudoElement(simple_selector.pseudo_type,
                                              compound_pseudo_element)

IsSimpleSelectorValidAfterPseudoElement(simple_selector, compound_pseudo_element) ==
    IF compound_pseudo_element = "kPseudoUnknown" THEN TRUE
    ELSE IF /\ compound_pseudo_element \in {"kPseudoAfter", "kPseudoBefore"}
            /\ simple_selector.pseudo_type = "kPseudoMarker"
            /\ CSSMarkerNestedPseudoElementEnabled
    THEN TRUE
    ELSE IF compound_pseudo_element = "kPseudoSlotted"
    THEN IsTreeAbidingPseudoElement(simple_selector)
    ELSE IF compound_pseudo_element = "kPseudoPart" /\ IsAllowedAfterPart(simple_selector)
    THEN TRUE
    ELSE IF simple_selector.match # "kPseudoClass" THEN FALSE
    ELSE IF simple_selector.pseudo_type \in {"kPseudoIs", "kPseudoWhere", "kPseudoNot",
                                             "kPseudoHas"}
    THEN TRUE
    ELSE IsPseudoClassValidAfterPseudoElement(simple_selector.pseudo_type,
                                              compound_pseudo_element)

\* IsPseudoClassValidWithinHasArgument with :has() allowed in :has().
IsPseudoClassValidWithinHasArgument_Any(selector) == TRUE

IsPseudoClassValidWithinHasArgument(selector) == selector.pseudo_type # "kPseudoHas"

(***************************************************************************)
(* The parser object: the members of CSSSelectorParser, and two records of *)
(* what the parser did (they are read by no parsing step): ns_log, the     *)
(* calls of DetermineNamespace, and call_log, the calls of the methods     *)
(* named in it with the members on entry and on return.  It also counts in *)
(* reset_failure_scopes the reset_failure scopes of the forgiving lists    *)
(* that are open, one for each list member being parsed.                   *)
(***************************************************************************)
NewParser(context_mode, style_sheet) ==
    [context_mode |-> context_mode,
     is_html_document |-> TRUE,
     style_sheet_ |-> style_sheet,
     failed_parsing_ |-> FALSE,
     disallow_pseudo_elements_ |-> FALSE,
     resist_default_namespace_ |-> FALSE,
     ignore_default_namespace_ |-> FALSE,
     restricting_pseudo_element_ |-> "kPseudoUnknown",
     inside_compound_pseudo_ |-> FALSE,
     is_inside_has_argument_ |-> FALSE,
     is_inside_logical_combination_in_has_argument_ |-> FALSE,
     found_pseudo_in_has_argument_ |-> FALSE,
     found_complex_logical_combinations_in_has_argument_ |-> FALSE,
     ns_log |-> <<>>,
     call_log |-> <<>>,
     loop_log |-> <<>>,
     reset_failure_scopes |-> 0]

\* The members a parsing step can change.
Members(p) ==
    [failed_parsing_ |-> p.failed_parsing_,
     disallow_pseudo_elements_ |-> p.disallow_pseudo_elements_,
     resist_default_namespace_ |-> p.resist_default_namespace_,
     ignore_default_namespace_ |-> p.ignore_default_namespace_,
     restricting_pseudo_element_ |-> p.restricting_pseudo_element_,
     inside_compound_pseudo_ |-> p.inside_compound_pseudo_,
     is_inside_has_argument_ |-> p.is_inside_has_argument_,
     is_inside_logical_combination_in_has_argument_ |->
         p.is_inside_logical_combination_in_has_argument_,
     found_pseudo_in_has_argument_ |-> p.found_pseudo_in_has_argument_,
     found_complex_logical_combinations_in_has_argument_ |->
         p.found_complex_logical_combinations_in_has_argument_]

\* The parser p with its members as recorded in m.
WithMembers(p, m) ==
    [p EXCEPT !.failed_parsing_ = m.failed_parsing_,
              !.disallow_pseudo_elements_ = m.disallow_pseudo_elements_,
              !.resist_default_namespace_ = m.resist_default_namespace_,
              !.ignore_default_namespace_ = m.ignore_default_namespace_,
              !.restricting_pseudo_element_ = m.restricting_pseudo_element_,
              !.inside_compound_pseudo_ = m.inside_compound_pseudo_,
              !.is_inside_has_argument_ = m.is_inside_has_argument_,
              !.is_inside_logical_combination_in_has_argument_ =
                  m.is_inside_logical_combination_in_has_argument_,
              !.found_pseudo_in_has_argument_ = m.found_pseudo_in_has_argument_,
              !.found_complex_logical_combinations_in_has_argument_ =
                  m.found_complex_logical_combinations_in_has_argument_]

\* One call in call_log: the method, the range and the members it was entered
\* with, the members it left, what it returned (a selector, or a list), and the
\* number of reset_failure scopes it was called in.
LogCall(p, fn, range, rest, entry, selector, list) ==
    [p EXCEPT !.call_log = Append(@,
        [fn |-> fn, range |-> range, rest |-> rest, entry |-> Members(entry),
         exit |-> Members(p),
         selector |-> selector, list |-> list,
         first |-> Len(entry.call_log) + 1,
         reset_failure_scopes |-> entry.reset_failure_scopes])]

\* One iteration of a loop in loop_log: the loop, the range the iteration
\* started with and the range it leaves to the next iteration.
LogLoop(p, loop, before, after) ==
    [p EXCEPT !.loop_log = Append(@, [loop |-> loop, before |-> before, after |-> after])]

\* An iteration of the loop of a forgiving list, which goes on when it ends at
\* a comma, at_comma being the range after the argument.
LogIteration(p, loop, before, at_comma) ==
    IF Peek(at_comma).type = "kCommaToken"
    THEN LogLoop(p, loop, before, ConsumeIncludingWhitespace(at_comma))
    ELSE p

\* What a Consume* method returns: the selector (nullptr for none), the range
\* and the parser as it leaves them.
Ret(selector, range, p) == [selector |-> selector, range |-> range, parser |-> p]

\* The same for a method that returns a selector list.
RetList(list, range, p) == [list |-> list, range |-> range, parser |-> p]

\* What the return of a method that returns a selector leaves in call_log, r
\* being what it returns.
LogSelector(fn, range, entry, r) ==
    [r EXCEPT !.parser = LogCall(@, fn, range, r.range, entry, r.selector, <<>>)]

\* The same for a method that returns a selector list.
LogList(fn, range, entry, r) ==
    [r EXCEPT !.parser = LogCall(@, fn, range, r.range, entry, nullptr, r.list)]

SetFailed(p) == [p EXCEPT !.failed_parsing_ = TRUE]

(***************************************************************************)
(* Namespaces.                                                             *)
(***************************************************************************)
\* DefaultNamespace while ignore_default_namespace_ is not looked at.
DefaultNamespace_OfSheet(p) ==
    IF p.style_sheet_.is_null THEN g_star_atom ELSE p.style_sheet_.default_namespace_

DefaultNamespace(p) ==
    IF p.style_sheet_.is_null \/ p.ignore_default_namespace_
    THEN g_star_atom
    ELSE p.style_sheet_.default_namespace_

\* DetermineNamespace taking a prefix it cannot resolve for any namespace.
DetermineNamespace_AnyIfUnresolved(p, prefix) ==
    IF IsNull(prefix) THEN DefaultNamespace(p)
    ELSE IF IsEmpty(prefix) THEN g_empty_atom
    ELSE IF prefix = g_star_atom THEN g_star_atom
    ELSE IF p.style_sheet_.is_null THEN g_star_atom
    ELSE IF NamespaceURIFromPrefix(p.style_sheet_, prefix) = g_null_atom THEN g_star_atom
    ELSE NamespaceURIFromPrefix(p.style_sheet_, prefix)

DetermineNamespace(p, prefix) ==
    IF IsNull(prefix) THEN DefaultNamespace(p)
    ELSE IF IsEmpty(prefix) THEN g_empty_atom
    ELSE IF prefix = g_star_atom THEN g_star_atom
    ELSE IF p.style_sheet_.is_null THEN g_null_atom
    ELSE NamespaceURIFromPrefix(p.style_sheet_, prefix)

\* The parser after a call of DetermineNamespace(prefix), which ns_log records.
LogNamespace(p, prefix) ==
    [p EXCEPT !.ns_log = Append(@,
        [prefix |-> prefix, ignore_default_namespace_ |-> p.ignore_default_namespace_,
         uri |-> DetermineNamespace(p, prefix)])]

(***************************************************************************)
(* Names, ids, classes and attributes.                                     *)
(***************************************************************************)
IsDelimiter(token, c) == token.type = "kDelimiterToken" /\ token.delimiter = c

\* ConsumeName: has_q_name, the name and the namespace prefix, and the range.
NameRet(has_q_name, name, namespace_prefix, range) ==
    [has_q_name |-> has_q_name, name |-> name, namespace_prefix |-> namespace_prefix,
     range |-> range]

ConsumeName(range) ==
    LET first_token == Peek(range)
        is_ident == first_token.type = "kIdentToken"
        is_star == IsDelimiter(first_token, "*")
        is_bar == IsDelimiter(first_token, "|")
        name == IF is_ident THEN first_token.value
                ELSE IF is_star THEN UniversalSelectorAtom
                ELSE g_empty_atom
        after_name == IF is_ident \/ is_star THEN Consume(range) ELSE range
        namespace_prefix == IF name = UniversalSelectorAtom THEN g_star_atom ELSE name
    IN  IF ~(is_ident \/ is_star \/ is_bar)
        THEN NameRet(FALSE, g_null_atom, g_null_atom, range)
        ELSE IF ~IsDelimiter(Peek(after_name), "|")
        THEN NameRet(TRUE, name, g_null_atom, after_name)
        ELSE IF PeekAt(after_name, 1).type = "kIdentToken"
        THEN NameRet(TRUE, PeekAt(after_name, 1).value, namespace_prefix,
                     Consume(Consume(after_name)))
        ELSE IF IsDelimiter(PeekAt(after_name, 1), "*")
        THEN NameRet(TRUE, UniversalSelectorAtom, namespace_prefix,
                     Consume(Consume(after_name)))
        ELSE NameRet(FALSE, g_null_atom, g_null_atom, after_name)

ConsumeId(range, p) ==
    IF Peek(range).hash_type # "kHashTokenId" THEN Ret(nullptr, range, p)
    ELSE Ret(<<[NewSelector EXCEPT !.match = "kId", !.value = Peek(range).value]>>,
             Consume(range), p)

ConsumeClass(range, p) ==
    LET after_dot == Consume(range)
    IN  IF Peek(after_dot).type # "kIdentToken" THEN Ret(nullptr, after_dot, p)
        ELSE Ret(<<[NewSelector EXCEPT !.match = "kClass",
                                       !.value = Peek(after_dot).value]>>,
                 Consume(after_dot), p)

\* ConsumeAttributeMatch: the match type, the range and the parser.
ConsumeAttributeMatch(range, p) ==
    LET token == Peek(range)
        rest == ConsumeIncludingWhitespace(range)
        match == CASE token.type = "kIncludeMatchToken" -> "kAttributeList"
                   [] token.type = "kDashMatchToken" -> "kAttributeHyphen"
                   [] token.type = "kPrefixMatchToken" -> "kAttributeBegin"
                   [] token.type = "kSuffixMatchToken" -> "kAttributeEnd"
                   [] token.type = "kSubstringMatchToken" -> "kAttributeContain"
                   [] OTHER -> "kAttributeExact"
        known == token.type \in {"kIncludeMatchToken", "kDashMatchToken", "kPrefixMatchToken",
                                 "kSuffixMatchToken", "kSubstringMatchToken"}
                 \/ IsDelimiter(token, "=")
    IN  [match |-> match, range |-> rest, parser |-> IF known THEN p ELSE SetFailed(p)]

\* ConsumeAttributeFlags taking the flag s whether the case-sensitive feature
\* is enabled or not.
ConsumeAttributeFlags_AlwaysS(range, p) ==
    LET flag == Peek(range)
        rest == ConsumeIncludingWhitespace(range)
    IN  IF flag.type # "kIdentToken"
        THEN [flags |-> "kCaseSensitive", range |-> range, parser |-> p]
        ELSE IF EqualIgnoringASCIICase(flag.value, Str_i)
        THEN [flags |-> "kCaseInsensitive", range |-> rest, parser |-> p]
        ELSE IF EqualIgnoringASCIICase(flag.value, Str_s)
        THEN [flags |-> "kCaseSensitiveAlways", range |-> rest, parser |-> p]
        ELSE [flags |-> "kCaseSensitive", range |-> rest, parser |-> SetFailed(p)]

\* ConsumeAttributeFlags: the case-sensitivity flag, the range and the parser.
ConsumeAttributeFlags(range, p) ==
    LET flag == Peek(range)
        rest == ConsumeIncludingWhitespace(range)
    IN  IF flag.type # "kIdentToken"
        THEN [flags |-> "kCaseSensitive", range |-> range, parser |-> p]
        ELSE IF EqualIgnoringASCIICase(flag.value, Str_i)
        THEN [flags |-> "kCaseInsensitive", range |-> rest, parser |-> p]
        ELSE IF EqualIgnoringASCIICase(flag.value, Str_s) /\ CSSCaseSensitiveSelectorEnabled
        THEN [flags |-> "kCaseSensitiveAlways", range |-> rest, parser |-> p]
        ELSE [flags |-> "kCaseSensitive", range |-> rest, parser |-> SetFailed(p)]

\* The end of ConsumeAttribute: a token left in the block after the flags
\* rejects the selector.
ConsumeAttributeEnd(rest, attribute, flags) ==
    IF ~AtEnd(flags.range) THEN Ret(nullptr, rest, flags.parser)
    ELSE Ret(<<[attribute EXCEPT !.attr_match = flags.flags]>>, rest, flags.parser)

\* ConsumeAttribute after the match operator was consumed: the value, the
\* flags and the end of the block.
ConsumeAttributeValue(rest, attribute, match) ==
    LET attribute_value == Peek(match.range)
    IN  IF attribute_value.type \notin {"kIdentToken", "kStringToken"}
        THEN Ret(nullptr, rest, match.parser)
        ELSE ConsumeAttributeEnd(
                 rest,
                 [attribute EXCEPT !.match = match.match, !.value = attribute_value.value],
                 ConsumeAttributeFlags(ConsumeIncludingWhitespace(match.range),
                                       match.parser))

\* ConsumeAttribute after the qualified name: block is the range after the
\* name, rest the range after the block.
ConsumeQualifiedAttribute(rest, name, block, namespace_uri, p, p1) ==
    LET attribute_name == IF p.is_html_document THEN LowerASCII(name.name) ELSE name.name
        attribute == IF IsNull(name.namespace_prefix)
                     THEN [NewSelector EXCEPT !.tag_local = attribute_name]
                     ELSE [NewSelector EXCEPT !.tag_prefix = name.namespace_prefix,
                                              !.tag_local = attribute_name,
                                              !.tag_uri = IF IsEmpty(namespace_uri)
                                                          THEN g_null_atom
                                                          ELSE namespace_uri]
    IN  IF ~name.has_q_name THEN Ret(nullptr, rest, p)
        ELSE IF name.name = UniversalSelectorAtom THEN Ret(nullptr, rest, p)
        ELSE IF IsNull(namespace_uri) THEN Ret(nullptr, rest, p1)
        ELSE IF AtEnd(block)
        THEN Ret(<<[attribute EXCEPT !.match = "kAttributeSet"]>>, rest, p1)
        ELSE ConsumeAttributeValue(rest, attribute, ConsumeAttributeMatch(block, p1))

\* ConsumeAttribute once the name in the block was consumed.
ConsumeNamedAttribute(rest, name, p) ==
    ConsumeQualifiedAttribute(rest, name, ConsumeWhitespace(name.range),
                              DetermineNamespace(p, name.namespace_prefix), p,
                              LogNamespace(p, name.namespace_prefix))

ConsumeAttribute(range, p) ==
    ConsumeNamedAttribute(ConsumeBlock(range).range,
                          ConsumeName(ConsumeWhitespace(ConsumeBlock(range).block)), p)

(***************************************************************************)
(* The An+B micro-grammar of the nth-* pseudo-classes.                     *)
(***************************************************************************)
\* ConsumeANPlusB: whether it accepted, the pair (first, second) and the range.
NthRet(ok, first, second, range) ==
    [ok |-> ok, first |-> first, second |-> second, range |-> range]

\* The same part leaving B as it is written after a minus sign.
ConsumeSignAndB_NotNegating(range, first, n_string) ==
    LET sign0 == IF Length(n_string) = 1 THEN "kNoSign" ELSE "kMinusSign"
        has_delimiter == sign0 = "kNoSign" /\ Peek(range).type = "kDelimiterToken"
        delimiter_sign == Delimiter(Peek(range))
        after_sign == IF has_delimiter THEN ConsumeIncludingWhitespace(range) ELSE range
        sign == IF ~has_delimiter THEN sign0
                ELSE IF delimiter_sign = "+" THEN "kPlusSign"
                ELSE IF delimiter_sign = "-" THEN "kMinusSign"
                ELSE "none"
        b == Peek(after_sign)
        second == ClampNumericValue(b)
    IN  IF sign = "none" THEN NthRet(FALSE, first, 0, after_sign)
        ELSE IF sign = "kNoSign" /\ b.type # "kNumberToken"
        THEN NthRet(TRUE, first, 0, after_sign)
        ELSE IF b.type # "kNumberToken" \/ b.numeric_value_type # "kIntegerValueType"
        THEN NthRet(FALSE, first, 0, Consume(after_sign))
        ELSE IF (b.numeric_sign = "kNoSign") = (sign = "kNoSign")
        THEN NthRet(FALSE, first, 0, Consume(after_sign))
        ELSE NthRet(TRUE, first, second, Consume(after_sign))

\* The same part without the test that B has exactly one sign, its own or the
\* delimiter before it.
ConsumeSignAndB_AnySign(range, first, n_string) ==
    LET sign0 == IF Length(n_string) = 1 THEN "kNoSign" ELSE "kMinusSign"
        has_delimiter == sign0 = "kNoSign" /\ Peek(range).type = "kDelimiterToken"
        delimiter_sign == Delimiter(Peek(range))
        after_sign == IF has_delimiter THEN ConsumeIncludingWhitespace(range) ELSE range
        sign == IF ~has_delimiter THEN sign0
                ELSE IF delimiter_sign = "+" THEN "kPlusSign"
                ELSE IF delimiter_sign = "-" THEN "kMinusSign"
                ELSE "none"
        b == Peek(after_sign)
        second == ClampNumericValue(b)
    IN  IF sign = "none" THEN NthRet(FALSE, first, 0, after_sign)
        ELSE IF sign = "kNoSign" /\ b.type # "kNumberToken"
        THEN NthRet(TRUE, first, 0, after_sign)
        ELSE IF b.type # "kNumberToken" \/ b.numeric_value_type # "kIntegerValueType"
        THEN NthRet(FALSE, first, 0, Consume(after_sign))
        ELSE IF sign = "kMinusSign"
        THEN NthRet(TRUE, first, IF second = IntMin THEN IntMax ELSE -second,
                    Consume(after_sign))
        ELSE NthRet(TRUE, first, second, Consume(after_sign))

\* The part of ConsumeANPlusB after the checks of n_string: the sign of B and B.
ConsumeSignAndB(range, first, n_string) ==
    LET sign0 == IF Length(n_string) = 1 THEN "kNoSign" ELSE "kMinusSign"
        has_delimiter == sign0 = "kNoSign" /\ Peek(range).type = "kDelimiterToken"
        delimiter_sign == Delimiter(Peek(range))
        after_sign == IF has_delimiter THEN ConsumeIncludingWhitespace(range) ELSE range
        sign == IF ~has_delimiter THEN sign0
                ELSE IF delimiter_sign = "+" THEN "kPlusSign"
                ELSE IF delimiter_sign = "-" THEN "kMinusSign"
                ELSE "none"
        b == Peek(after_sign)
        second == ClampNumericValue(b)
    IN  IF sign = "none" THEN NthRet(FALSE, first, 0, after_sign)
        ELSE IF sign = "kNoSign" /\ b.type # "kNumberToken"
        THEN NthRet(TRUE, first, 0, after_sign)
        ELSE IF b.type # "kNumberToken" \/ b.numeric_value_type # "kIntegerValueType"
        THEN NthRet(FALSE, first, 0, Consume(after_sign))
        ELSE IF (b.numeric_sign = "kNoSign") = (sign = "kNoSign")
        THEN NthRet(FALSE, first, 0, Consume(after_sign))
        ELSE IF sign = "kMinusSign"
        THEN NthRet(TRUE, first, IF second = IntMin THEN IntMax ELSE -second,
                    Consume(after_sign))
        ELSE NthRet(TRUE, first, second, Consume(after_sign))

ConsumeANPlusB(range) ==
    LET token == Peek(range)
        after_token == Consume(range)
        is_integer == /\ token.type = "kNumberToken"
                      /\ token.numeric_value_type = "kIntegerValueType"
        is_ident == token.type = "kIdentToken"
        plus_ident == IsDelimiter(token, "+") /\ Peek(after_token).type = "kIdentToken"
        is_dimension == /\ token.type = "kDimensionToken"
                        /\ token.numeric_value_type = "kIntegerValueType"
        minus_ident == is_ident /\ CharAt(token.value, 0) = "-"
        first == IF plus_ident THEN 1
                 ELSE IF is_dimension THEN ClampNumericValue(token)
                 ELSE IF minus_ident THEN -1
                 ELSE 1
        n_string == IF plus_ident THEN Peek(after_token).value
                    ELSE IF is_dimension THEN token.value
                    ELSE IF minus_ident THEN Substring(token.value, 1)
                    ELSE IF is_ident THEN token.value
                    ELSE g_null_atom
        after_n == ConsumeWhitespace(IF plus_ident THEN Consume(after_token)
                                     ELSE after_token)
        b == ToIntStrict(Substring(n_string, 1))
    IN  IF is_integer THEN NthRet(TRUE, 0, ClampNumericValue(token), after_token)
        ELSE IF is_ident /\ EqualIgnoringASCIICase(token.value, Str_odd)
        THEN NthRet(TRUE, 2, 1, after_token)
        ELSE IF is_ident /\ EqualIgnoringASCIICase(token.value, Str_even)
        THEN NthRet(TRUE, 2, 0, after_token)
        ELSE IF IsEmpty(n_string) \/ ~IsASCIIAlphaCaselessEqual(CharAt(n_string, 0), "n")
        THEN NthRet(FALSE, first, 0, after_n)
        ELSE IF Length(n_string) > 1 /\ CharAt(n_string, 1) # "-"
        THEN NthRet(FALSE, first, 0, after_n)
        ELSE IF Length(n_string) > 2
        THEN NthRet(b.valid, first, b.value, after_n)
        ELSE ConsumeSignAndB(after_n, first, n_string)

(***************************************************************************)
(* The recursive descent.                                                  *)
(***************************************************************************)
\* CompoundSelectorFlags
kHasPseudoElementForRightmostCompound == 1

\* ExtractCompoundFlags finding no pseudo-element in any simple selector.
ExtractCompoundFlags_None(simple_selector, parser_mode) == 0

ExtractCompoundFlags(simple_selector, parser_mode) ==
    IF simple_selector.match # "kPseudoElement" THEN 0
    ELSE IF /\ parser_mode = "kUASheetMode"
            /\ simple_selector.pseudo_type = "kPseudoWebKitCustomElement"
    THEN 0
    ELSE kHasPseudoElementForRightmostCompound

\* The flags of the simple selectors of a chain, or-ed together.
RECURSIVE CompoundFlagsOf(_, _)
CompoundFlagsOf(chain, parser_mode) ==
    IF chain = <<>> THEN 0
    ELSE IF ExtractCompoundFlags(Head(chain), parser_mode) # 0
    THEN kHasPseudoElementForRightmostCompound
    ELSE CompoundFlagsOf(Tail(chain), parser_mode)

\* ConsumeNestedArgument: the tokens up to the next comma outside any block (or
\* to the end), and the range from that comma on.
RECURSIVE ConsumeNestedArgument(_)
ConsumeNestedArgument(range) ==
    IF AtEnd(range) \/ Peek(range).type = "kCommaToken"
    THEN [argument |-> <<>>, range |-> range]
    ELSE LET consumed == IF GetBlockType(Peek(range)) = "kBlockStart"
                         THEN Len(range) - Len(ConsumeBlock(range).range)
                         ELSE 1
             rest == ConsumeNestedArgument(SubSeq(range, consumed + 1, Len(range)))
         IN  [argument |-> SubSeq(range, 1, consumed) \o rest.argument,
              range |-> rest.range]

AtEndIgnoringWhitespace(range) == AtEnd(ConsumeWhitespace(range))

\* ConsumeCombinator with whitespace deciding: a delimiter that follows
\* whitespace is consumed, and the combinator is the descendant one.
ConsumeCombinator_WhitespaceIsDescendant(range) ==
    LET after_space == ConsumeWhitespace(range)
        delimiter == Delimiter(Peek(after_space))
        after_delimiter == IF delimiter \in {"+", "~", ">"}
                           THEN ConsumeIncludingWhitespace(after_space)
                           ELSE after_space
    IN  [combinator |-> CASE Peek(range).type = "kWhitespaceToken" -> "kDescendant"
                          [] OTHER -> CASE delimiter = "+" -> "kDirectAdjacent"
                                        [] delimiter = "~" -> "kIndirectAdjacent"
                                        [] delimiter = ">" -> "kChild"
                                        [] OTHER -> "kSubSelector",
         range |-> after_delimiter]

\* ConsumeCombinator: the relation and the range.
ConsumeCombinator(range) ==
    LET after_space == ConsumeWhitespace(range)
        fallback_result == IF Peek(range).type = "kWhitespaceToken" THEN "kDescendant"
                           ELSE "kSubSelector"
        delimiter == Delimiter(Peek(after_space))
    IN  IF delimiter = "+"
        THEN [combinator |-> "kDirectAdjacent",
              range |-> ConsumeIncludingWhitespace(after_space)]
        ELSE IF delimiter = "~"
        THEN [combinator |-> "kIndirectAdjacent",
              range |-> ConsumeIncludingWhitespace(after_space)]
        ELSE IF delimiter = ">"
        THEN [combinator |-> "kChild", range |-> ConsumeIncludingWhitespace(after_space)]
        ELSE [combinator |-> fallback_result, range |-> after_space]

\* SplitCompoundAtImplicitShadowCrossingCombinator.  split_after is the position
\* of the first simple selector whose successor needs an implicit shadow
\* combinator; 0 when there is none.
RECURSIVE SplitAfter(_, _)
SplitAfter(chain, i) ==
    IF i >= Len(chain) THEN 0
    ELSE IF NeedsImplicitShadowCombinatorForMatching(chain[i + 1]) THEN i
    ELSE SplitAfter(chain, i + 1)

RECURSIVE SplitCompoundAtImplicitShadowCrossingCombinator(_)

\* SplitCompoundAtImplicitShadowCrossingCombinator splitting once: what follows
\* the first split is not split again.
SplitCompoundAtImplicitShadowCrossingCombinator_Once(compound_selector) ==
    LET split_after == SplitAfter(compound_selector, 1)
        remaining == SubSeq(compound_selector, split_after + 1, Len(compound_selector))
        relation == GetImplicitShadowCombinatorForMatching(Head(remaining))
    IN  IF split_after = 0 THEN compound_selector
        ELSE AppendTagHistory(remaining, relation, SubSeq(compound_selector, 1, split_after))

SplitCompoundAtImplicitShadowCrossingCombinator(compound_selector) ==
    LET split_after == SplitAfter(compound_selector, 1)
        remaining == SubSeq(compound_selector, split_after + 1, Len(compound_selector))
        relation == GetImplicitShadowCombinatorForMatching(Head(remaining))
    IN  IF split_after = 0 THEN compound_selector
        ELSE AppendTagHistory(SplitCompoundAtImplicitShadowCrossingCombinator(remaining),
                              relation, SubSeq(compound_selector, 1, split_after))

\* PrependTypeSelectorIfNeeded discarding the tag of any namespace and any name
\* in front of a host pseudo-class as it does in front of other selectors.
PrependTypeSelectorIfNeeded_DiscardingBeforeHost(p, namespace_prefix, has_q_name, element_name, compound_selector) ==
    LET needs_shadow == NeedsImplicitShadowCombinatorForMatching(Head(compound_selector))
        determined_element_name == IF ~has_q_name THEN UniversalSelectorAtom
                                   ELSE element_name
        namespace_uri == DetermineNamespace(p, namespace_prefix)
        p1 == LogNamespace(p, namespace_prefix)
        determined_prefix == IF namespace_uri = DefaultNamespace(p) THEN g_null_atom
                             ELSE namespace_prefix
        is_host_pseudo == IsHostPseudoSelector(Head(compound_selector))
    IN  IF ~has_q_name /\ DefaultNamespace(p) = g_star_atom /\ ~needs_shadow
        THEN [selector |-> compound_selector, parser |-> p]
        ELSE IF IsNull(namespace_uri)
        THEN [selector |-> compound_selector, parser |-> SetFailed(p1)]
        ELSE IF is_host_pseudo /\ ~has_q_name /\ IsNull(namespace_prefix)
        THEN [selector |-> compound_selector, parser |-> p1]
        ELSE IF \/ ~IsAnyQName(determined_prefix, determined_element_name, namespace_uri)
                \/ needs_shadow
        THEN [selector |->
                  PrependTagSelector(compound_selector, determined_prefix,
                                     determined_element_name, namespace_uri,
                                     /\ determined_prefix = g_null_atom
                                     /\ determined_element_name = UniversalSelectorAtom
                                     /\ ~is_host_pseudo),
              parser |-> p1]
        ELSE [selector |-> compound_selector, parser |-> p1]

\* PrependTypeSelectorIfNeeded prepending the tag whatever the default
\* namespace and the compound are.
PrependTypeSelectorIfNeeded_Always(p, namespace_prefix, has_q_name, element_name, compound_selector) ==
    LET determined_element_name == IF ~has_q_name THEN UniversalSelectorAtom
                                   ELSE element_name
        namespace_uri == DetermineNamespace(p, namespace_prefix)
        p1 == LogNamespace(p, namespace_prefix)
        determined_prefix == IF namespace_uri = DefaultNamespace(p) THEN g_null_atom
                             ELSE namespace_prefix
        is_host_pseudo == IsHostPseudoSelector(Head(compound_selector))
    IN  IF IsNull(namespace_uri)
        THEN [selector |-> compound_selector, parser |-> SetFailed(p1)]
        ELSE [selector |->
                  PrependTagSelector(compound_selector, determined_prefix,
                                     determined_element_name, namespace_uri,
                                     /\ determined_prefix = g_null_atom
                                     /\ determined_element_name = UniversalSelectorAtom
                                     /\ ~is_host_pseudo),
              parser |-> p1]

\* PrependTypeSelectorIfNeeded: the compound and the parser as it leaves them.
PrependTypeSelectorIfNeeded(p, namespace_prefix, has_q_name, element_name, compound_selector) ==
    LET needs_shadow == NeedsImplicitShadowCombinatorForMatching(Head(compound_selector))
        determined_element_name == IF ~has_q_name THEN UniversalSelectorAtom
                                   ELSE element_name
        namespace_uri == DetermineNamespace(p, namespace_prefix)
        p1 == LogNamespace(p, namespace_prefix)
        determined_prefix == IF namespace_uri = DefaultNamespace(p) THEN g_null_atom
                             ELSE namespace_prefix
        is_host_pseudo == IsHostPseudoSelector(Head(compound_selector))
    IN  IF ~has_q_name /\ DefaultNamespace(p) = g_star_atom /\ ~needs_shadow
        THEN [selector |-> compound_selector, parser |-> p]
        ELSE IF IsNull(namespace_uri)
        THEN [selector |-> compound_selector, parser |-> SetFailed(p1)]
        ELSE IF is_host_pseudo /\ ~has_q_name /\ IsNull(namespace_prefix)
        THEN [selector |-> compound_selector, parser |-> p1]
        ELSE IF \/ ~IsAnyQName(determined_prefix, determined_element_name, namespace_uri)
                \/ is_host_pseudo
                \/ needs_shadow
        THEN [selector |->
                  PrependTagSelector(compound_selector, determined_prefix,
                                     determined_element_name, namespace_uri,
                                     /\ determined_prefix = g_null_atom
                                     /\ determined_element_name = UniversalSelectorAtom
                                     /\ ~is_host_pseudo),
              parser |-> p1]
        ELSE [selector |-> compound_selector, parser |-> p1]


\* The loop of the kPseudoPart case: whether every token was an identifier, and
\* the part names.
RECURSIVE Invoke(_)

RECURSIVE ConsumePartNames(_, _)
ConsumePartNames(block, parts) ==
    LET ident == Peek(block)
        rest == ConsumeIncludingWhitespace(block)
    IN  IF ident.type # "kIdentToken"
        THEN [ok |-> FALSE, parts |-> parts, iterations |-> <<>>]
        ELSE IF AtEnd(rest)
        THEN [ok |-> TRUE, parts |-> Append(parts, ident.value), iterations |-> <<>>]
        ELSE [ConsumePartNames(rest, Append(parts, ident.value)) EXCEPT
                  !.iterations = <<[loop |-> "ConsumePseudo (kPseudoPart)",
                                    before |-> block, after |-> rest]>> \o @]

\* The kPseudoNthChild case of ConsumePseudo once ConsumeANPlusB returned ab.
ConsumeNthArgument(selector, rest, p, ab) ==
    IF ~ab.ok THEN Ret(nullptr, rest, p)
    ELSE IF ~AtEnd(ConsumeWhitespace(ab.range)) THEN Ret(nullptr, rest, p)
    ELSE Ret(<<[selector EXCEPT !.nth = <<ab.first, ab.second>>]>>, rest, p)

\* The scopes of the kPseudoHas case with the two found_ members set, not
\* cleared, for the argument.
HasArgumentScope_Marked(p) ==
    [p EXCEPT !.disallow_pseudo_elements_ = TRUE,
              !.resist_default_namespace_ = TRUE,
              !.is_inside_has_argument_ = TRUE,
              !.found_pseudo_in_has_argument_ = TRUE,
              !.found_complex_logical_combinations_in_has_argument_ = TRUE]

\* The members as the scopes of the kPseudoHas case set them for the argument
\* of a :has().
HasArgumentScope(p) ==
    [p EXCEPT !.disallow_pseudo_elements_ = TRUE,
              !.resist_default_namespace_ = TRUE,
              !.is_inside_has_argument_ = TRUE,
              !.found_pseudo_in_has_argument_ = FALSE,
              !.found_complex_logical_combinations_in_has_argument_ = FALSE]

\* The selector of a functional pseudo with the selector list of its argument.
WithSelectorList(selector, list) ==
    <<[selector EXCEPT !.has_selector_list = TRUE, !.selector_list = list]>>

\* ConsumeForgivingNestedSelectorList taking complex selectors wherever it is.
ConsumeForgivingNestedSelectorList_Complex(range, p) ==
    Invoke(<<"ConsumeForgivingComplexSelectorList", range, p>>)

ConsumeForgivingNestedSelectorList(range, p) ==
    IF p.inside_compound_pseudo_
    THEN Invoke(<<"ConsumeForgivingCompoundSelectorList", range, p>>)
    ELSE Invoke(<<"ConsumeForgivingComplexSelectorList", range, p>>)

\* ConsumeNestedSelectorList as a forgiving list: the members that fail are
\* dropped and the others returned.
ConsumeNestedSelectorList_Forgiving(range, p) ==
    LET r == ConsumeForgivingNestedSelectorList(range, p)
    IN  LogList("ConsumeNestedSelectorList", range, p,
                [r EXCEPT !.parser.call_log = SubSeq(@, 1, Len(@) - 1)])

\* ConsumeNestedSelectorList, its return recorded in call_log.
ConsumeNestedSelectorList(range, p) ==
    LogList("ConsumeNestedSelectorList", range, p,
            IF p.inside_compound_pseudo_
            THEN Invoke(<<"ConsumeCompoundSelectorList", range, p>>)
            ELSE Invoke(<<"ConsumeComplexSelectorList", range, p>>))

\* The switch of ConsumePseudo on the pseudo type of a functional pseudo: block
\* holds its argument, rest is the range after it.  Each case sets the scoped
\* members for its nested list and puts them back before it returns.
ConsumePseudoArgument(selector, block, rest, p) ==
    CASE selector.pseudo_type \in {"kPseudoIs", "kPseudoWhere"} ->
            LET nested == ConsumeForgivingNestedSelectorList(block,
                    [p EXCEPT !.disallow_pseudo_elements_ = TRUE,
                              !.resist_default_namespace_ = TRUE,
                              !.is_inside_logical_combination_in_has_argument_ =
                                  p.is_inside_has_argument_])
                after == [nested.parser EXCEPT
                              !.disallow_pseudo_elements_ = p.disallow_pseudo_elements_,
                              !.resist_default_namespace_ = p.resist_default_namespace_,
                              !.is_inside_logical_combination_in_has_argument_ =
                                  p.is_inside_logical_combination_in_has_argument_]
            IN  IF nested.range # <<>> THEN Ret(nullptr, rest, after)
                ELSE Ret(WithSelectorList(selector, nested.list), rest, after)
      [] selector.pseudo_type \in {"kPseudoHost", "kPseudoHostContext", "kPseudoAny",
                                   "kPseudoCue"} ->
            LET nested == Invoke(<<"ConsumeCompoundSelectorList", block,
                    [p EXCEPT !.disallow_pseudo_elements_ = TRUE,
                              !.inside_compound_pseudo_ = TRUE,
                              !.ignore_default_namespace_ =
                                  \/ p.ignore_default_namespace_
                                  \/ selector.pseudo_type = "kPseudoCue"]>>)
                after == [nested.parser EXCEPT
                              !.disallow_pseudo_elements_ = p.disallow_pseudo_elements_,
                              !.inside_compound_pseudo_ = p.inside_compound_pseudo_,
                              !.ignore_default_namespace_ = p.ignore_default_namespace_]
            IN  IF nested.list = <<>> \/ nested.range # <<>> THEN Ret(nullptr, rest, after)
                ELSE IF /\ Len(nested.list) # 1
                        /\ selector.pseudo_type \in {"kPseudoHost", "kPseudoHostContext"}
                THEN Ret(nullptr, rest, after)
                ELSE Ret(WithSelectorList(selector, nested.list), rest, after)
      [] selector.pseudo_type = "kPseudoHas" ->
            LET nested == Invoke(<<"ConsumeForgivingRelativeSelectorList", block,
                                   HasArgumentScope(p)>>)
                after == [nested.parser EXCEPT
                              !.disallow_pseudo_elements_ = p.disallow_pseudo_elements_,
                              !.resist_default_namespace_ = p.resist_default_namespace_,
                              !.is_inside_has_argument_ = p.is_inside_has_argument_,
                              !.found_pseudo_in_has_argument_ =
                                  p.found_pseudo_in_has_argument_,
                              !.found_complex_logical_combinations_in_has_argument_ =
                                  p.found_complex_logical_combinations_in_has_argument_]
            IN  IF ~CSSPseudoHasEnabled THEN Ret(nullptr, rest, p)
                ELSE IF nested.list = <<>> THEN Ret(nullptr, rest, after)
                ELSE IF nested.range # <<>> THEN Ret(nullptr, rest, after)
                ELSE Ret(<<[selector EXCEPT
                               !.has_selector_list = TRUE,
                               !.selector_list = nested.list,
                               !.contains_pseudo_inside_has =
                                   nested.parser.found_pseudo_in_has_argument_,
                               !.contains_complex_logical_combinations_inside_has =
                                   nested.parser.found_complex_logical_combinations_in_has_argument_]>>,
                         rest, after)
      [] selector.pseudo_type = "kPseudoNot" ->
            LET nested == ConsumeNestedSelectorList(block,
                    [p EXCEPT !.disallow_pseudo_elements_ = TRUE,
                              !.resist_default_namespace_ = TRUE,
                              !.is_inside_logical_combination_in_has_argument_ =
                                  p.is_inside_has_argument_])
                after == [nested.parser EXCEPT
                              !.disallow_pseudo_elements_ = p.disallow_pseudo_elements_,
                              !.resist_default_namespace_ = p.resist_default_namespace_,
                              !.is_inside_logical_combination_in_has_argument_ =
                                  p.is_inside_logical_combination_in_has_argument_]
            IN  IF nested.list = <<>> \/ nested.range # <<>> THEN Ret(nullptr, rest, after)
                ELSE Ret(WithSelectorList(selector, nested.list), rest, after)
      [] selector.pseudo_type \in {"kPseudoDir", "kPseudoLang", "kPseudoHighlight"} ->
            LET ident == Peek(block)
            IN  IF ident.type # "kIdentToken" \/ ~AtEnd(ConsumeIncludingWhitespace(block))
                THEN Ret(nullptr, rest, p)
                ELSE Ret(<<[selector EXCEPT !.argument = ident.value]>>, rest, p)
      [] selector.pseudo_type = "kPseudoPart" ->
            LET names == ConsumePartNames(block, <<>>)
                looped == [p EXCEPT !.loop_log = @ \o names.iterations]
            IN  IF ~names.ok THEN Ret(nullptr, rest, looped)
                ELSE Ret(<<[selector EXCEPT !.part_names = names.parts]>>, rest, looped)
      [] selector.pseudo_type = "kPseudoSlotted" ->
            LET inner == Invoke(<<"ConsumeCompoundSelector", block,
                    [p EXCEPT !.disallow_pseudo_elements_ = TRUE,
                              !.inside_compound_pseudo_ = TRUE]>>)
                after == [inner.parser EXCEPT
                              !.disallow_pseudo_elements_ = p.disallow_pseudo_elements_,
                              !.inside_compound_pseudo_ = p.inside_compound_pseudo_]
            IN  IF inner.selector = nullptr \/ ~AtEnd(ConsumeWhitespace(inner.range))
                THEN Ret(nullptr, rest, after)
                ELSE Ret(WithSelectorList(selector, <<inner.selector>>), rest, after)
      [] selector.pseudo_type \in {"kPseudoNthChild", "kPseudoNthLastChild",
                                   "kPseudoNthOfType", "kPseudoNthLastOfType"} ->
            ConsumeNthArgument(selector, rest, p, ConsumeANPlusB(block))
      [] OTHER -> Ret(nullptr, rest, p)

\* found_pseudo_in_has_argument_ is set for a pseudo inside the argument of :has().
FoundPseudo(p) ==
    IF p.is_inside_has_argument_ THEN [p EXCEPT !.found_pseudo_in_has_argument_ = TRUE]
    ELSE p

\* ConsumePseudo from the test of disallow_pseudo_elements_ on, without that
\* test: a pseudo-element is taken wherever it is written.
ConsumeTypedPseudo_AllowingPseudoElements(at_name, selector, p) ==
    IF p.is_inside_has_argument_ /\ ~IsPseudoClassValidWithinHasArgument(selector)
    THEN Ret(nullptr, at_name, p)
    ELSE CASE Peek(at_name).type = "kIdentToken" ->
                  Ret(IF selector.pseudo_type = "kPseudoUnknown" THEN nullptr
                      ELSE <<selector>>,
                      Consume(at_name), FoundPseudo(p))
           [] /\ Peek(at_name).type # "kIdentToken"
              /\ selector.pseudo_type = "kPseudoUnknown" ->
                  Ret(nullptr, ConsumeBlock(at_name).range, FoundPseudo(p))
           [] OTHER ->
                  ConsumePseudoArgument(selector,
                                        ConsumeWhitespace(ConsumeBlock(at_name).block),
                                        ConsumeBlock(at_name).range, FoundPseudo(p))

\* ConsumePseudo from the test of disallow_pseudo_elements_ on: at_name is the
\* range at the name token, selector the pseudo with its type set.
ConsumeTypedPseudo(at_name, selector, p) ==
    IF \/ selector.match = "kPseudoElement" /\ p.disallow_pseudo_elements_
       \/ p.is_inside_has_argument_ /\ ~IsPseudoClassValidWithinHasArgument(selector)
    THEN Ret(nullptr, at_name, p)
    ELSE CASE Peek(at_name).type = "kIdentToken" ->
                  Ret(IF selector.pseudo_type = "kPseudoUnknown" THEN nullptr
                      ELSE <<selector>>,
                      Consume(at_name), FoundPseudo(p))
           [] /\ Peek(at_name).type # "kIdentToken"
              /\ selector.pseudo_type = "kPseudoUnknown" ->
                  Ret(nullptr, ConsumeBlock(at_name).range, FoundPseudo(p))
           [] OTHER ->
                  ConsumePseudoArgument(selector,
                                        ConsumeWhitespace(ConsumeBlock(at_name).block),
                                        ConsumeBlock(at_name).range, FoundPseudo(p))

\* ConsumePseudo from its first token on.
ConsumeColonsAndName(range, p) ==
    LET after_colon == Consume(range)
        colons == IF Peek(after_colon).type = "kColonToken" THEN 2 ELSE 1
        at_name == IF colons = 2 THEN Consume(after_colon) ELSE after_colon
        token == Peek(at_name)
    IN  IF token.type \notin {"kIdentToken", "kFunctionToken"} THEN Ret(nullptr, at_name, p)
        ELSE ConsumeTypedPseudo(
                 at_name,
                 UpdatePseudoType(
                     [NewSelector EXCEPT !.match = IF colons = 1 THEN "kPseudoClass"
                                                   ELSE "kPseudoElement"],
                     token.value, token.type = "kFunctionToken", p.context_mode),
                 p)

\* ConsumePseudo, its return recorded in call_log.
ConsumePseudo(range, p) ==
    LogSelector("ConsumePseudo", range, p, ConsumeColonsAndName(range, p))

\* The end of ConsumeSimpleSelector without the test of the selector against
\* the pseudo-element of the compound.
CheckSimpleSelector_AnyAfterPseudoElement(range, p, r) ==
    [r EXCEPT !.parser =
        LogCall(IF r.selector = nullptr THEN SetFailed(@) ELSE @,
                "ConsumeSimpleSelector", range, r.range, p, r.selector, <<>>)]

\* The end of ConsumeSimpleSelector, r being what the method chosen by the
\* token returned: the failure flag is set when no selector was made, or when,
\* outside UA-sheet mode, the selector is not valid after the pseudo-element
\* of the compound.  The return is recorded in call_log.
CheckSimpleSelector(range, p, r) ==
    [r EXCEPT !.parser =
        LogCall(IF \/ r.selector = nullptr
                   \/ /\ p.context_mode # "kUASheetMode"
                      /\ ~IsSimpleSelectorValidAfterPseudoElement(
                             Head(r.selector), r.parser.restricting_pseudo_element_)
                THEN SetFailed(@)
                ELSE @,
                "ConsumeSimpleSelector", range, r.range, p, r.selector, <<>>)]

ConsumeSimpleSelector(range, p) ==
    CASE Peek(range).type = "kHashToken" ->
             CheckSimpleSelector(range, p, ConsumeId(range, p))
      [] IsDelimiter(Peek(range), ".") ->
             CheckSimpleSelector(range, p, ConsumeClass(range, p))
      [] Peek(range).type = "kLeftBracketToken" ->
             CheckSimpleSelector(range, p, ConsumeAttribute(range, p))
      [] Peek(range).type = "kColonToken" ->
             CheckSimpleSelector(range, p, Invoke(<<"ConsumePseudo", range, p>>))
      [] OTHER -> Ret(nullptr, range, p)

\* The simple selectors of ConsumeCompoundSelector, the one it consumes before
\* its while loop when there is no name and those of the loop: they are added
\* to the compound until one is not returned.
RECURSIVE ConsumeSimpleSelectors(_, _, _)
ConsumeSimpleSelectors(range, p, compound_selector) ==
    LET simple == Invoke(<<"ConsumeSimpleSelector", range, p>>)
        p1 == IF Head(simple.selector).match = "kPseudoElement"
              THEN [simple.parser EXCEPT !.restricting_pseudo_element_ =
                                             Head(simple.selector).pseudo_type]
              ELSE simple.parser
        added == IF compound_selector # nullptr
                 THEN AppendTagHistory(compound_selector, "kSubSelector", simple.selector)
                 ELSE simple.selector
    IN  IF simple.selector = nullptr THEN Ret(compound_selector, simple.range, simple.parser)
        ELSE ConsumeSimpleSelectors(simple.range,
                                    LogLoop(p1, "ConsumeCompoundSelector", range,
                                            simple.range),
                                    added)

\* The return of ConsumeCompoundSelector, prepended being what
\* PrependTypeSelectorIfNeeded left.  The call of
\* SplitCompoundAtImplicitShadowCrossingCombinator is recorded in call_log, the
\* compound it was given as the one member of list.
SplitPrepended(range, prepended) ==
    Ret(SplitCompoundAtImplicitShadowCrossingCombinator(prepended.selector), range,
        LogCall(prepended.parser, "SplitCompoundAtImplicitShadowCrossingCombinator",
                <<>>, <<>>, prepended.parser,
                SplitCompoundAtImplicitShadowCrossingCombinator(prepended.selector),
                <<prepended.selector>>))

\* The end of ConsumeCompoundSelector, ignore_default_namespace_ set for it in
\* p2: the type selector alone when there is no simple selector, and otherwise
\* the compound with the type selector it needs, split at the implicit shadow
\* combinator.
FinishCompoundSelector(name, element_name, simples, p2) ==
    LET compound_selector == simples.selector
        namespace_uri == DetermineNamespace(p2, name.namespace_prefix)
        p3 == LogNamespace(p2, name.namespace_prefix)
        namespace_prefix == IF namespace_uri = DefaultNamespace(p2) THEN g_null_atom
                            ELSE name.namespace_prefix
    IN  IF compound_selector = nullptr
        THEN IF IsNull(namespace_uri) THEN Ret(nullptr, simples.range, SetFailed(p3))
             ELSE Ret(<<TagSelector(namespace_prefix, element_name, namespace_uri, FALSE)>>,
                      simples.range, p3)
        ELSE SplitPrepended(simples.range,
                            PrependTypeSelectorIfNeeded(p2, name.namespace_prefix,
                                                        name.has_q_name, element_name,
                                                        compound_selector))

\* ConsumeCompoundSelector ignoring the default namespace for the last compound
\* of a resisting context even when it has a type or universal selector.
ConsumeCompoundSelectorTail_IgnoringTypeSelectors(name, p, simples) ==
    FinishCompoundSelector(
        name,
        IF p.is_html_document THEN LowerASCII(name.name) ELSE name.name,
        simples,
        [simples.parser EXCEPT !.ignore_default_namespace_ =
            \/ simples.parser.ignore_default_namespace_
            \/ /\ simples.parser.resist_default_namespace_
               /\ AtEndIgnoringWhitespace(simples.range)])

\* ConsumeCompoundSelector after its while loop, simples being what the loop
\* leaves: the compound, the range and the parser.
ConsumeCompoundSelectorTail(name, p, simples) ==
    FinishCompoundSelector(
        name,
        IF p.is_html_document THEN LowerASCII(name.name) ELSE name.name,
        simples,
        [simples.parser EXCEPT !.ignore_default_namespace_ =
            \/ simples.parser.ignore_default_namespace_
            \/ /\ simples.parser.resist_default_namespace_
               /\ ~name.has_q_name
               /\ AtEndIgnoringWhitespace(simples.range)])

\* ConsumeCompoundSelector once ConsumeName returned name and the simple
\* selectors were consumed: with no name and no simple selector it returns at
\* once.
ConsumeNamedCompoundSelector(name, p, simples) ==
    IF simples.selector = nullptr /\ ~name.has_q_name THEN simples
    ELSE ConsumeCompoundSelectorTail(name, p, simples)

\* ConsumeCompoundSelector without its two AutoReset scopes:
\* ignore_default_namespace_ and restricting_pseudo_element_ stay as the
\* compound left them.
ConsumeCompoundSelector_NoReset(range, p) ==
    LogSelector(
        "ConsumeCompoundSelector", range, p,
        ConsumeNamedCompoundSelector(
            ConsumeName(range), p,
            ConsumeSimpleSelectors(ConsumeName(range).range, p, nullptr)))

\* ConsumeCompoundSelector: ignore_default_namespace_ and
\* restricting_pseudo_element_ are put back when it returns.  The return is
\* recorded in call_log.
ConsumeCompoundSelector(range, p) ==
    LogSelector(
        "ConsumeCompoundSelector", range, p,
        [ConsumeNamedCompoundSelector(
             ConsumeName(range), p,
             ConsumeSimpleSelectors(ConsumeName(range).range, p, nullptr))
         EXCEPT !.parser =
             [@ EXCEPT !.ignore_default_namespace_ = p.ignore_default_namespace_,
                       !.restricting_pseudo_element_ = p.restricting_pseudo_element_]])

\* The do-while loop of ConsumePartialComplexSelector.
RECURSIVE ConsumePartialComplexSelector(_, _, _, _, _)
ConsumePartialComplexSelector(range, combinator, selector, previous_compound_flags, p) ==
    LET next == Invoke(<<"ConsumeCompoundSelector", range, p>>)
        compound_flags == CompoundFlagsOf(next.selector, p.context_mode)
        linked == AppendTagHistory(next.selector, combinator, selector)
        following == ConsumeCombinator(next.range)
    IN  IF next.selector = nullptr
        THEN Ret(IF combinator = "kDescendant" THEN selector ELSE nullptr,
                 next.range, next.parser)
        ELSE IF previous_compound_flags = kHasPseudoElementForRightmostCompound
        THEN Ret(nullptr, next.range, next.parser)
        ELSE IF following.combinator # "kSubSelector"
        THEN ConsumePartialComplexSelector(
                 following.range, following.combinator, linked, compound_flags,
                 LogLoop(next.parser, "ConsumePartialComplexSelector", range,
                         following.range))
        ELSE Ret(linked, following.range, next.parser)

ConsumeComplexSelector(range, p) ==
    LET compound == Invoke(<<"ConsumeCompoundSelector", range, p>>)
        previous_compound_flags == CompoundFlagsOf(compound.selector, p.context_mode)
        following == ConsumeCombinator(compound.range)
        p1 == IF /\ compound.parser.is_inside_has_argument_
                 /\ compound.parser.is_inside_logical_combination_in_has_argument_
              THEN [compound.parser EXCEPT
                        !.found_complex_logical_combinations_in_has_argument_ = TRUE]
              ELSE compound.parser
    IN  IF compound.selector = nullptr THEN compound
        ELSE IF following.combinator # "kSubSelector"
        THEN ConsumePartialComplexSelector(following.range, following.combinator,
                                           compound.selector, previous_compound_flags, p1)
        ELSE Ret(compound.selector, following.range, compound.parser)

\* The -internal-relative-anchor pseudo-class a relative selector starts from.
RelativeAnchor(p) ==
    UpdatePseudoType([NewSelector EXCEPT !.match = "kPseudoClass"],
                     Str__internal_relative_anchor, FALSE, p.context_mode)

ConsumeRelativeSelector(range, p) ==
    LET consumed == ConsumeCombinator(range)
        combinator == CASE consumed.combinator \in {"kSubSelector", "kDescendant"} ->
                               "kRelativeDescendant"
                        [] consumed.combinator = "kChild" -> "kRelativeChild"
                        [] consumed.combinator = "kDirectAdjacent" ->
                               "kRelativeDirectAdjacent"
                        [] consumed.combinator = "kIndirectAdjacent" ->
                               "kRelativeIndirectAdjacent"
    IN  ConsumePartialComplexSelector(consumed.range, combinator, <<RelativeAnchor(p)>>, 0, p)

\* The while loop of ConsumeComplexSelectorList(range): empty as soon as a
\* selector after a comma is not returned.
RECURSIVE ComplexSelectorListLoop(_, _, _)
ComplexSelectorListLoop(range, p, selector_list) ==
    LET after_comma == ConsumeIncludingWhitespace(range)
        selector == ConsumeComplexSelector(after_comma, p)
    IN  IF AtEnd(range) \/ Peek(range).type # "kCommaToken"
        THEN RetList(selector_list, range, p)
        ELSE IF selector.selector = nullptr
        THEN RetList(<<>>, selector.range, selector.parser)
        ELSE ComplexSelectorListLoop(
                 selector.range,
                 LogLoop(selector.parser, "ConsumeComplexSelectorList", range,
                         selector.range),
                 Append(selector_list, selector.selector))

ConsumeComplexSelectorList(range, p) ==
    LET selector == ConsumeComplexSelector(range, p)
        looped == ComplexSelectorListLoop(selector.range, selector.parser,
                                          <<selector.selector>>)
    IN  IF selector.selector = nullptr THEN RetList(<<>>, selector.range, selector.parser)
        ELSE IF looped.parser.failed_parsing_ THEN RetList(<<>>, looped.range, looped.parser)
        ELSE looped

RECURSIVE CompoundSelectorListLoop(_, _, _)
CompoundSelectorListLoop(range, p, selector_list) ==
    LET after_comma == ConsumeIncludingWhitespace(range)
        selector == Invoke(<<"ConsumeCompoundSelector", after_comma, p>>)
        rest == ConsumeWhitespace(selector.range)
    IN  IF AtEnd(range) \/ Peek(range).type # "kCommaToken"
        THEN RetList(selector_list, range, p)
        ELSE IF selector.selector = nullptr
        THEN RetList(<<>>, rest, selector.parser)
        ELSE CompoundSelectorListLoop(
                 rest,
                 LogLoop(selector.parser, "ConsumeCompoundSelectorList", range, rest),
                 Append(selector_list, selector.selector))

ConsumeCompoundSelectorList(range, p) ==
    LET selector == Invoke(<<"ConsumeCompoundSelector", range, p>>)
        rest == ConsumeWhitespace(selector.range)
        looped == CompoundSelectorListLoop(rest, selector.parser, <<selector.selector>>)
    IN  IF selector.selector = nullptr THEN RetList(<<>>, rest, selector.parser)
        ELSE IF looped.parser.failed_parsing_ THEN RetList(<<>>, looped.range, looped.parser)
        ELSE looped

\* The while loop of ConsumeForgivingComplexSelectorList: failed_parsing_ is
\* cleared for each argument and put back to what it was when the iteration
\* ends.
RECURSIVE ForgivingComplexSelectorListLoop(_, _, _)
RECURSIVE ForgivingComplexSelectorListNext(_, _, _)

\* The loop of ConsumeForgivingComplexSelectorList without its reset_failure
\* scope: the flag is neither cleared before a member nor put back after it.
ForgivingComplexSelectorListLoop_NoReset(range, p, selector_list) ==
    IF AtEnd(range) THEN RetList(selector_list, range, p)
    ELSE LET nested == ConsumeNestedArgument(range)
             selector == ConsumeComplexSelector(
                             nested.argument, [p EXCEPT !.reset_failure_scopes = @ + 1])
             after == [selector.parser EXCEPT
                           !.reset_failure_scopes = p.reset_failure_scopes]
         IN  IF /\ selector.selector # nullptr
                /\ ~selector.parser.failed_parsing_
                /\ AtEnd(selector.range)
             THEN ForgivingComplexSelectorListNext(
                      nested.range, after, Append(selector_list, selector.selector))
             ELSE ForgivingComplexSelectorListNext(nested.range, after, selector_list)

ForgivingComplexSelectorListLoop(range, p, selector_list) ==
    IF AtEnd(range) THEN RetList(selector_list, range, p)
    ELSE LET nested == ConsumeNestedArgument(range)
             selector == ConsumeComplexSelector(
                             nested.argument,
                             [p EXCEPT !.failed_parsing_ = FALSE,
                                       !.reset_failure_scopes = @ + 1])
             after == LogIteration([selector.parser EXCEPT
                                        !.failed_parsing_ = p.failed_parsing_,
                                        !.reset_failure_scopes = p.reset_failure_scopes],
                                   "ConsumeForgivingComplexSelectorList", range, nested.range)
         IN  IF /\ selector.selector # nullptr
                /\ ~selector.parser.failed_parsing_
                /\ AtEnd(selector.range)
             THEN ForgivingComplexSelectorListNext(
                      nested.range, after, Append(selector_list, selector.selector))
             ELSE ForgivingComplexSelectorListNext(nested.range, after, selector_list)

\* The end of an iteration of that loop: it goes on after a comma.
ForgivingComplexSelectorListNext(range, p, selector_list) ==
    IF Peek(range).type # "kCommaToken" THEN RetList(selector_list, range, p)
    ELSE ForgivingComplexSelectorListLoop(ConsumeIncludingWhitespace(range), p,
                                          selector_list)

\* ConsumeForgivingComplexSelectorList parsing its range as the unforgiving
\* list does: one member that fails empties the list.
ConsumeForgivingComplexSelectorList_Unforgiving(range, p) ==
    LET r == ConsumeComplexSelectorList(range, [p EXCEPT !.failed_parsing_ = FALSE,
                                                         !.reset_failure_scopes = @ + 1])
    IN  LogList("ConsumeForgivingComplexSelectorList", range, p,
                RetList(IF AtEnd(r.range) THEN r.list ELSE <<>>, <<>>,
                        [r.parser EXCEPT !.failed_parsing_ = p.failed_parsing_,
                                         !.reset_failure_scopes = p.reset_failure_scopes]))

ConsumeForgivingComplexSelectorList(range, p) ==
    LogList("ConsumeForgivingComplexSelectorList", range, p,
            ForgivingComplexSelectorListLoop(range, p, <<>>))

\* The while loop of ConsumeForgivingCompoundSelectorList.
RECURSIVE ForgivingCompoundSelectorListLoop(_, _, _)
RECURSIVE ForgivingCompoundSelectorListNext(_, _, _)
ForgivingCompoundSelectorListLoop(range, p, selector_list) ==
    IF AtEnd(range) THEN RetList(selector_list, range, p)
    ELSE LET nested == ConsumeNestedArgument(range)
             selector == Invoke(<<"ConsumeCompoundSelector", nested.argument,
                                  [p EXCEPT !.failed_parsing_ = FALSE,
                                            !.reset_failure_scopes = @ + 1]>>)
             after == LogIteration([selector.parser EXCEPT
                                        !.failed_parsing_ = p.failed_parsing_,
                                        !.reset_failure_scopes = p.reset_failure_scopes],
                                   "ConsumeForgivingCompoundSelectorList", range, nested.range)
         IN  IF /\ selector.selector # nullptr
                /\ ~selector.parser.failed_parsing_
                /\ AtEnd(ConsumeWhitespace(selector.range))
             THEN ForgivingCompoundSelectorListNext(
                      nested.range, after, Append(selector_list, selector.selector))
             ELSE ForgivingCompoundSelectorListNext(nested.range, after, selector_list)

\* The end of an iteration of that loop: it goes on after a comma.
ForgivingCompoundSelectorListNext(range, p, selector_list) ==
    IF Peek(range).type # "kCommaToken" THEN RetList(selector_list, range, p)
    ELSE ForgivingCompoundSelectorListLoop(ConsumeIncludingWhitespace(range), p,
                                           selector_list)

ConsumeForgivingCompoundSelectorList(range, p) ==
    LogList("ConsumeForgivingCompoundSelectorList", range, p,
            ForgivingCompoundSelectorListLoop(range, p, <<>>))

\* The while loop of ConsumeForgivingRelativeSelectorList.
RECURSIVE ForgivingRelativeSelectorListLoop(_, _, _)
RECURSIVE ForgivingRelativeSelectorListNext(_, _, _)
ForgivingRelativeSelectorListLoop(range, p, selector_list) ==
    IF AtEnd(range) THEN RetList(selector_list, range, p)
    ELSE LET nested == ConsumeNestedArgument(range)
             selector == ConsumeRelativeSelector(
                             nested.argument,
                             [p EXCEPT !.failed_parsing_ = FALSE,
                                       !.reset_failure_scopes = @ + 1])
             after == LogIteration([selector.parser EXCEPT
                                        !.failed_parsing_ = p.failed_parsing_,
                                        !.reset_failure_scopes = p.reset_failure_scopes],
                                   "ConsumeForgivingRelativeSelectorList", range, nested.range)
         IN  IF /\ selector.selector # nullptr
                /\ ~selector.parser.failed_parsing_
                /\ AtEnd(selector.range)
             THEN ForgivingRelativeSelectorListNext(
                      nested.range, after, Append(selector_list, selector.selector))
             ELSE ForgivingRelativeSelectorListNext(nested.range, after, selector_list)

\* The end of an iteration of that loop: it goes on after a comma.
ForgivingRelativeSelectorListNext(range, p, selector_list) ==
    IF Peek(range).type # "kCommaToken" THEN RetList(selector_list, range, p)
    ELSE ForgivingRelativeSelectorListLoop(ConsumeIncludingWhitespace(range), p,
                                           selector_list)

\* ConsumeForgivingRelativeSelectorList as a forgiving list: an empty list is
\* returned without the failure flag being set.
RelativeSelectorListOrFailure_Forgiving(r) ==
    IF \/ r.parser.inside_compound_pseudo_
       \/ r.parser.restricting_pseudo_element_ # "kPseudoUnknown"
    THEN RetList(<<>>, r.range, r.parser)
    ELSE r

\* The end of ConsumeForgivingRelativeSelectorList, r being what its while
\* loop leaves.
RelativeSelectorListOrFailure(r) ==
    IF \/ r.parser.inside_compound_pseudo_
       \/ r.parser.restricting_pseudo_element_ # "kPseudoUnknown"
    THEN RetList(<<>>, r.range, r.parser)
    ELSE IF r.list = <<>> THEN RetList(<<>>, r.range, SetFailed(r.parser))
    ELSE r

\* ConsumeForgivingRelativeSelectorList without its test of
\* inside_compound_pseudo_ and restricting_pseudo_element_: the list is
\* returned wherever :has() is written.
ConsumeForgivingRelativeSelectorList_Unrestricted(range, p) ==
    LET r == ForgivingRelativeSelectorListLoop(range, p, <<>>)
    IN  LogList("ConsumeForgivingRelativeSelectorList", range, p,
                IF r.list = <<>> THEN RetList(<<>>, r.range, SetFailed(r.parser)) ELSE r)

ConsumeForgivingRelativeSelectorList(range, p) ==
    LogList("ConsumeForgivingRelativeSelectorList", range, p,
            RelativeSelectorListOrFailure(ForgivingRelativeSelectorListLoop(range, p, <<>>)))

\* The entry points, the switch of ConsumePseudo and the callers of
\* ConsumeCompoundSelector, ConsumeSimpleSelector and ConsumePseudo make their
\* calls through Invoke, which takes the call as the tuple of the method's name and its arguments (so
\* the arguments are evaluated where the call is made).
Invoke(call) ==
    CASE call[1] = "ConsumePseudo" ->
             ConsumePseudo(call[2], call[3])
      [] call[1] = "ConsumeSimpleSelector" ->
             ConsumeSimpleSelector(call[2], call[3])
      [] call[1] = "ConsumeCompoundSelector" ->
             ConsumeCompoundSelector(call[2], call[3])
      [] call[1] = "ConsumeComplexSelector" ->
             ConsumeComplexSelector(call[2], call[3])
      [] call[1] = "ConsumeComplexSelectorList" ->
             ConsumeComplexSelectorList(call[2], call[3])
      [] call[1] = "ConsumeCompoundSelectorList" ->
             ConsumeCompoundSelectorList(call[2], call[3])
      [] call[1] = "ConsumeForgivingComplexSelectorList" ->
             ConsumeForgivingComplexSelectorList(call[2], call[3])
      [] call[1] = "ConsumeForgivingCompoundSelectorList" ->
             ConsumeForgivingCompoundSelectorList(call[2], call[3])
      [] call[1] = "ConsumeForgivingRelativeSelectorList" ->
             ConsumeForgivingRelativeSelectorList(call[2], call[3])

(***************************************************************************)
(* The entry points.                                                       *)
(***************************************************************************)
\* The end of ParseSelector, consumed being what ConsumeComplexSelectorList
\* returned: nothing is returned when a token is left in the range.
ClearUnlessAtEnd(consumed) ==
    IF consumed.range # <<>> THEN RetList(<<>>, consumed.range, consumed.parser)
    ELSE consumed

\* ParseSelector without the test that the range is at its end: the members
\* parsed so far are returned whatever follows them.
ParseSelector_KeepParsed(range, context_mode, style_sheet) ==
    Invoke(<<"ConsumeComplexSelectorList", ConsumeWhitespace(range), NewParser(context_mode, style_sheet)>>)

\* ParseSelector: the vector it returns, with the range and the parser as they
\* were when it returned.
ParseSelector(range, context_mode, style_sheet) ==
    ClearUnlessAtEnd(Invoke(<<"ConsumeComplexSelectorList", ConsumeWhitespace(range),
                                                NewParser(context_mode, style_sheet)>>))

\* The keys of the feature_table of FeatureForWebKitCustomPseudoElement.
FeatureTableKeys ==
    { <<"c","u","e">>
    , <<"-","i","n","t","e","r","n","a","l","-","m","e","d","i","a","-","c","o","n","t","r","o","l","s","-","o","v","e","r","l","a","y","-","c","a","s","t","-","b","u","t","t","o","n">>
    , <<"-","w","e","b","k","i","t","-","c","a","l","e","n","d","a","r","-","p","i","c","k","e","r","-","i","n","d","i","c","a","t","o","r">>
    , <<"-","w","e","b","k","i","t","-","c","l","e","a","r","-","b","u","t","t","o","n">>
    , <<"-","w","e","b","k","i","t","-","c","o","l","o","r","-","s","w","a","t","c","h">>
    , <<"-","w","e","b","k","i","t","-","c","o","l","o","r","-","s","w","a","t","c","h","-","w","r","a","p","p","e","r">>
    , <<"-","w","e","b","k","i","t","-","d","a","t","e","-","a","n","d","-","t","i","m","e","-","v","a","l","u","e">>
    , <<"-","w","e","b","k","i","t","-","d","a","t","e","t","i","m","e","-","e","d","i","t">>
    , <<"-","w","e","b","k","i","t","-","d","a","t","e","t","i","m","e","-","e","d","i","t","-","a","m","p","m","-","f","i","e","l","d">>
    , <<"-","w","e","b","k","i","t","-","d","a","t","e","t","i","m","e","-","e","d","i","t","-","d","a","y","-","f","i","e","l","d">>
    , <<"-","w","e","b","k","i","t","-","d","a","t","e","t","i","m","e","-","e","d","i","t","-","f","i","e","l","d","s","-","w","r","a","p","p","e","r">>
    , <<"-","w","e","b","k","i","t","-","d","a","t","e","t","i","m","e","-","e","d","i","t","-","h","o","u","r","-","f","i","e","l","d">>
    , <<"-","w","e","b","k","i","t","-","d","a","t","e","t","i","m","e","-","e","d","i","t","-","m","i","l","l","i","s","e","c","o","n","d","-","f","i","e","l","d">>
    , <<"-","w","e","b","k","i","t","-","d","a","t","e","t","i","m","e","-","e","d","i","t","-","m","i","n","u","t","e","-","f","i","e","l","d">>
    , <<"-","w","e","b","k","i","t","-","d","a","t","e","t","i","m","e","-","e","d","i","t","-","m","o","n","t","h","-","f","i","e","l","d">>
    , <<"-","w","e","b","k","i","t","-","d","a","t","e","t","i","m","e","-","e","d","i","t","-","s","e","c","o","n","d","-","f","i","e","l","d">>
    , <<"-","w","e","b","k","i","t","-","d","a","t","e","t","i","m","e","-","e","d","i","t","-","t","e","x","t">>
    , <<"-","w","e","b","k","i","t","-","d","a","t","e","t","i","m","e","-","e","d","i","t","-","w","e","e","k","-","f","i","e","l","d">>
    , <<"-","w","e","b","k","i","t","-","d","a","t","e","t","i","m","e","-","e","d","i","t","-","y","e","a","r","-","f","i","e","l","d">>
    , <<"-","w","e","b","k","i","t","-","f","i","l","e","-","u","p","l","o","a","d","-","b","u","t","t","o","n">>
    , <<"-","w","e","b","k","i","t","-","i","n","n","e","r","-","s","p","i","n","-","b","u","t","t","o","n">>
    , <<"-","w","e","b","k","i","t","-","i","n","p","u","t","-","p","l","a","c","e","h","o","l","d","e","r">>
    , <<"-","w","e","b","k","i","t","-","m","e","d","i","a","-","c","o","n","t","r","o","l","s">>
    , <<"-","w","e","b","k","i","t","-","m","e","d","i","a","-","c","o","n","t","r","o","l","s","-","c","u","r","r","e","n","t","-","t","i","m","e","-","d","i","s","p","l","a","y">>
    , <<"-","w","e","b","k","i","t","-","m","e","d","i","a","-","c","o","n","t","r","o","l","s","-","e","n","c","l","o","s","u","r","e">>
    , <<"-","w","e","b","k","i","t","-","m","e","d","i","a","-","c","o","n","t","r","o","l","s","-","f","u","l","l","s","c","r","e","e","n","-","b","u","t","t","o","n">>
    , <<"-","w","e","b","k","i","t","-","m","e","d","i","a","-","c","o","n","t","r","o","l","s","-","m","u","t","e","-","b","u","t","t","o","n">>
    , <<"-","w","e","b","k","i","t","-","m","e","d","i","a","-","c","o","n","t","r","o","l","s","-","o","v","e","r","l","a","y","-","e","n","c","l","o","s","u","r","e">>
    , <<"-","w","e","b","k","i","t","-","m","e","d","i","a","-","c","o","n","t","r","o","l","s","-","o","v","e","r","l","a","y","-","p","l","a","y","-","b","u","t","t","o","n">>
    , <<"-","w","e","b","k","i","t","-","m","e","d","i","a","-","c","o","n","t","r","o","l","s","-","p","a","n","e","l">>
    , <<"-","w","e","b","k","i","t","-","m","e","d","i","a","-","c","o","n","t","r","o","l","s","-","p","l","a","y","-","b","u","t","t","o","n">>
    , <<"-","w","e","b","k","i","t","-","m","e","d","i","a","-","c","o","n","t","r","o","l","s","-","t","i","m","e","l","i","n","e">>
    , <<"-","w","e","b","k","i","t","-","m","e","d","i","a","-","c","o","n","t","r","o","l","s","-","t","i","m","e","l","i","n","e","-","c","o","n","t","a","i","n","e","r">>
    , <<"-","w","e","b","k","i","t","-","m","e","d","i","a","-","c","o","n","t","r","o","l","s","-","t","i","m","e","-","r","e","m","a","i","n","i","n","g","-","d","i","s","p","l","a","y">>
    , <<"-","w","e","b","k","i","t","-","m","e","d","i","a","-","c","o","n","t","r","o","l","s","-","t","o","g","g","l","e","-","c","l","o","s","e","d","-","c","a","p","t","i","o","n","s","-","b","u","t","t","o","n">>
    , <<"-","w","e","b","k","i","t","-","m","e","d","i","a","-","c","o","n","t","r","o","l","s","-","v","o","l","u","m","e","-","s","l","i","d","e","r">>
    , <<"-","w","e","b","k","i","t","-","m","e","d","i","a","-","s","l","i","d","e","r","-","c","o","n","t","a","i","n","e","r">>
    , <<"-","w","e","b","k","i","t","-","m","e","d","i","a","-","s","l","i","d","e","r","-","t","h","u","m","b">>
    , <<"-","w","e","b","k","i","t","-","m","e","d","i","a","-","t","e","x","t","-","t","r","a","c","k","-","c","o","n","t","a","i","n","e","r">>
    , <<"-","w","e","b","k","i","t","-","m","e","d","i","a","-","t","e","x","t","-","t","r","a","c","k","-","d","i","s","p","l","a","y">>
    , <<"-","w","e","b","k","i","t","-","m","e","d","i","a","-","t","e","x","t","-","t","r","a","c","k","-","r","e","g","i","o","n">>
    , <<"-","w","e","b","k","i","t","-","m","e","d","i","a","-","t","e","x","t","-","t","r","a","c","k","-","r","e","g","i","o","n","-","c","o","n","t","a","i","n","e","r">>
    , <<"-","w","e","b","k","i","t","-","m","e","t","e","r","-","b","a","r">>
    , <<"-","w","e","b","k","i","t","-","m","e","t","e","r","-","e","v","e","n","-","l","e","s","s","-","g","o","o","d","-","v","a","l","u","e">>
    , <<"-","w","e","b","k","i","t","-","m","e","t","e","r","-","i","n","n","e","r","-","e","l","e","m","e","n","t">>
    , <<"-","w","e","b","k","i","t","-","m","e","t","e","r","-","o","p","t","i","m","u","m","-","v","a","l","u","e">>
    , <<"-","w","e","b","k","i","t","-","m","e","t","e","r","-","s","u","b","o","p","t","i","m","u","m","-","v","a","l","u","e">>
    , <<"-","w","e","b","k","i","t","-","p","r","o","g","r","e","s","s","-","b","a","r">>
    , <<"-","w","e","b","k","i","t","-","p","r","o","g","r","e","s","s","-","i","n","n","e","r","-","e","l","e","m","e","n","t">>
    , <<"-","w","e","b","k","i","t","-","p","r","o","g","r","e","s","s","-","v","a","l","u","e">>
    , <<"-","w","e","b","k","i","t","-","s","e","a","r","c","h","-","c","a","n","c","e","l","-","b","u","t","t","o","n">>
    , <<"-","w","e","b","k","i","t","-","s","l","i","d","e","r","-","c","o","n","t","a","i","n","e","r">>
    , <<"-","w","e","b","k","i","t","-","s","l","i","d","e","r","-","r","u","n","n","a","b","l","e","-","t","r","a","c","k">>
    , <<"-","w","e","b","k","i","t","-","s","l","i","d","e","r","-","t","h","u","m","b">>
    , <<"-","w","e","b","k","i","t","-","t","e","x","t","f","i","e","l","d","-","d","e","c","o","r","a","t","i","o","n","-","c","o","n","t","a","i","n","e","r">>
    }

\* FeatureForWebKitCustomPseudoElement(name) == kCSSSelectorWebkitUnknownPseudo
IsUnknownWebKitCustomPseudoElement(name) == name \notin FeatureTableKeys

\* ContainsUnknownWebkitPseudoElements finding none.
ContainsUnknownWebkitPseudoElements_None(complex_selector) == FALSE

RECURSIVE ContainsUnknownWebkitPseudoElements(_)
ContainsUnknownWebkitPseudoElements(complex_selector) ==
    IF complex_selector = <<>> THEN FALSE
    ELSE IF /\ Head(complex_selector).pseudo_type = "kPseudoWebKitCustomElement"
            /\ IsUnknownWebKitCustomPseudoElement(Head(complex_selector).value)
    THEN TRUE
    ELSE ContainsUnknownWebkitPseudoElements(Tail(complex_selector))

\* The end of SupportsComplexSelector, parser_selector being what
\* ConsumeComplexSelector returned.
SupportsParsedSelector(parser_selector) ==
    [supported |->
         IF \/ parser_selector.parser.failed_parsing_
            \/ ~AtEnd(parser_selector.range)
            \/ parser_selector.selector = nullptr
         THEN FALSE
         ELSE ~ContainsUnknownWebkitPseudoElements(parser_selector.selector),
     selector |-> parser_selector.selector,
     range |-> parser_selector.range,
     parser |-> parser_selector.parser]

\* SupportsComplexSelector: what it returns, with the selector, the range and the
\* parser of its trial parse.
SupportsComplexSelector(range, context_mode) ==
    SupportsParsedSelector(Invoke(<<"ConsumeComplexSelector", ConsumeWhitespace(range),
                                                  NewParser(context_mode, NoStyleSheet)>>))

(***************************************************************************)
(* The state machine: an input is put together from fragments of selector  *)
(* text (each the tokens the tokenizer gives for it), then one entry point *)
(* is run on it.                                                           *)
(***************************************************************************)
MaxPieces == 4
MaxNesting == 2
MaxPseudoPieces == 3
MaxNamespacePieces == 3
MaxNthTokens == 3

Piece_div == <<IdentToken(Str_div)>>
Piece_class_a == <<DelimiterToken("."), IdentToken(Str_a)>>
Piece_comma == <<CommaToken>>
Piece_space == <<WhitespaceToken>>
Piece_close == <<RightParenthesisToken>>
Piece_child == <<DelimiterToken(">")>>
Piece_is == <<ColonToken, FunctionToken(Str_is)>>
Piece_has == <<ColonToken, FunctionToken(Str_has)>>
Piece_not == <<ColonToken, FunctionToken(Str_not)>>
Piece_cue == <<ColonToken, ColonToken, FunctionToken(Str_cue)>>
Piece_before == <<ColonToken, ColonToken, IdentToken(Str_before)>>
Piece_hover == <<ColonToken, IdentToken(Str_hover)>>
Piece_part_x == <<ColonToken, ColonToken, FunctionToken(Str_part), IdentToken(Str_x),
                  RightParenthesisToken>>
Piece_webkit_foo == <<ColonToken, ColonToken, IdentToken(Str__webkit_foo)>>
Piece_webkit_clear_button == <<ColonToken, ColonToken, IdentToken(Str__webkit_clear_button)>>
Piece_ns_div == <<IdentToken(Str_ns), DelimiterToken("|"), IdentToken(Str_div)>>
Piece_bogus_div == <<IdentToken(Str_bogus), DelimiterToken("|"), IdentToken(Str_div)>>
Piece_star_div == <<DelimiterToken("*"), DelimiterToken("|"), IdentToken(Str_div)>>
Piece_bar_div == <<DelimiterToken("|"), IdentToken(Str_div)>>
Piece_attr_bogus_x == <<LeftBracketToken, IdentToken(Str_bogus), DelimiterToken("|"),
                        IdentToken(Str_x), RightBracketToken>>

\* div  .a  ,  (space)  )  :is(  :has(  :not(
ListPieces ==
    {Piece_div, Piece_class_a, Piece_comma, Piece_space, Piece_close, Piece_is, Piece_has,
     Piece_not}

\* div  .a  ,  (space)  >  ::before  :hover  ::part(x)  ::-webkit-foo  ::-webkit-clear-button
PseudoPieces ==
    {Piece_div, Piece_class_a, Piece_comma, Piece_space, Piece_child, Piece_before,
     Piece_hover, Piece_part_x, Piece_webkit_foo, Piece_webkit_clear_button}

\* ns|div  bogus|div  *|div  |div  div  .a  [bogus|x]  ::cue(  :is(  )
NamespacePieces ==
    {Piece_ns_div, Piece_bogus_div, Piece_star_div, Piece_bar_div, Piece_div, Piece_class_a,
     Piece_attr_bogus_x, Piece_cue, Piece_is, Piece_close}

NoNth == NthRet(FALSE, 0, 0, <<>>)

NoResult ==
    [list |-> <<>>, selector |-> nullptr, supported |-> FALSE, nth |-> NoNth,
     range |-> <<>>, parser |-> NewParser("kHTMLStandardMode", NoStyleSheet)]

InitWith(modes, sheets) ==
    /\ input = <<>>
    /\ n_pieces = 0
    /\ mode \in modes
    /\ sheet \in sheets
    /\ phase = "build"
    /\ result = NoResult

\* The number of blocks a range leaves open at its end.
RECURSIVE OpenAtEnd(_, _)
OpenAtEnd(range, level) ==
    IF range = <<>> THEN level
    ELSE OpenAtEnd(Tail(range),
                   CASE GetBlockType(Head(range)) = "kBlockStart" -> level + 1
                     [] GetBlockType(Head(range)) = "kBlockEnd" /\ level > 0 -> level - 1
                     [] OTHER -> level)

AddPiece(pieces, max) ==
    /\ phase = "build"
    /\ n_pieces < max
    /\ \E piece \in pieces :
           /\ OpenAtEnd(input \o piece, 0) <= MaxNesting
           /\ input' = input \o piece
    /\ n_pieces' = n_pieces + 1
    /\ UNCHANGED <<mode, sheet, phase, result>>

\* The result of a run of ParseSelector that returned r.
ParseSelectorResult(r) ==
    [NoResult EXCEPT !.list = r.list, !.range = r.range, !.parser = r.parser]

CallParseSelector ==
    /\ phase = "build"
    /\ phase' = "ParseSelector"
    /\ result' = ParseSelectorResult(ParseSelector(input, mode, sheet))
    /\ UNCHANGED <<input, n_pieces, mode, sheet>>

\* The result of a run of SupportsComplexSelector that returned r.
SupportsComplexSelectorResult(r) ==
    [NoResult EXCEPT !.supported = r.supported, !.selector = r.selector,
                     !.range = r.range, !.parser = r.parser]

CallSupportsComplexSelector ==
    /\ phase = "build"
    /\ phase' = "SupportsComplexSelector"
    /\ result' = SupportsComplexSelectorResult(SupportsComplexSelector(input, mode))
    /\ UNCHANGED <<input, n_pieces, mode, sheet>>

Init == InitWith({"kHTMLStandardMode"}, {NoStyleSheet})

Next ==
    \/ AddPiece(ListPieces, MaxPieces)
    \/ CallParseSelector

Spec == Init /\ [][Next]_vars

\* :has(  :is(  :not(  :host(  )  .a  ::part(x)
Piece_host == <<ColonToken, FunctionToken(Str_host)>>

HasPieces ==
    {Piece_has, Piece_is, Piece_not, Piece_host, Piece_close, Piece_class_a, Piece_part_x}

NextHas == AddPiece(HasPieces, MaxPieces) \/ CallParseSelector
SpecHas == Init /\ [][NextHas]_vars

\* Selectors with pseudo-elements, in a page and in the UA sheet, given to
\* ParseSelector and to SupportsComplexSelector.
InitPseudo == InitWith({"kHTMLStandardMode", "kUASheetMode"}, {NoStyleSheet})

NextPseudo ==
    \/ AddPiece(PseudoPieces, MaxPseudoPieces)
    \/ CallParseSelector
    \/ CallSupportsComplexSelector

SpecPseudo == InitPseudo /\ [][NextPseudo]_vars

\* The arguments of :nth-child(): the tokens the tokenizer makes of integers
\* (3 +1 +3 -3), a number that is not an integer (2.5), idents
\* (odd even n N -n n- n-3 n-x foo), dimensions (2n 2n- 2n-3 2.5n), the
\* delimiters + - * and whitespace.
NthTokens ==
    { NumberToken(3, "kIntegerValueType", "kNoSign")
    , NumberToken(1, "kIntegerValueType", "kPlusSign")
    , NumberToken(3, "kIntegerValueType", "kPlusSign")
    , NumberToken(-3, "kIntegerValueType", "kMinusSign")
    , NumberToken(2, "kNumberValueType", "kNoSign")
    , IdentToken(Str_odd), IdentToken(Str_even), IdentToken(Str_n), IdentToken(<<"N">>)
    , IdentToken(Str__n), IdentToken(Str_n_), IdentToken(Str_n_3), IdentToken(Str_n_x)
    , IdentToken(Str_foo)
    , DimensionToken(2, "kIntegerValueType", "kNoSign", Str_n)
    , DimensionToken(2, "kIntegerValueType", "kNoSign", Str_n_)
    , DimensionToken(2, "kIntegerValueType", "kNoSign", Str_n_3)
    , DimensionToken(2, "kNumberValueType", "kNoSign", Str_n)
    , DelimiterToken("+"), DelimiterToken("-"), DelimiterToken("*")
    , WhitespaceToken }

NthPieces == {<<token>> : token \in NthTokens}

\* :nth-child(  followed by the argument and the closing parenthesis.
NthChild(argument) ==
    <<ColonToken, FunctionToken(Str_nth_child)>> \o argument \o <<RightParenthesisToken>>

\* ConsumeANPlusB run on the tokens alone.
CallConsumeANPlusB ==
    /\ phase = "build"
    /\ phase' = "ConsumeANPlusB"
    /\ result' = [NoResult EXCEPT !.nth = ConsumeANPlusB(input)]
    /\ UNCHANGED <<input, n_pieces, mode, sheet>>

\* ParseSelector run on :nth-child() with the tokens as its argument.
CallParseNthChild ==
    /\ phase = "build"
    /\ phase' = "ParseSelector"
    /\ result' = ParseSelectorResult(ParseSelector(NthChild(input), mode, sheet))
    /\ UNCHANGED <<input, n_pieces, mode, sheet>>

NextNth ==
    \/ AddPiece(NthPieces, MaxNthTokens)
    \/ CallConsumeANPlusB
    \/ CallParseNthChild

SpecNth == Init /\ [][NextNth]_vars

\* Selectors with namespace prefixes, parsed without a stylesheet, with one
\* that declares the prefix ns, and with one that also declares a default
\* namespace.
InitNamespace ==
    InitWith({"kHTMLStandardMode"}, {NoStyleSheet, PrefixStyleSheet, DefaultNsStyleSheet})

NextNamespace ==
    \/ AddPiece(NamespacePieces, MaxNamespacePieces)
    \/ CallParseSelector

SpecNamespace == InitNamespace /\ [][NextNamespace]_vars

\* Complex selectors: compounds of div, .a, .c, :hover and :is(.a, .b), written
\* with whitespace and the combinators > + ~ between them.
MaxCombinatorPieces == 4

Piece_class_c == <<DelimiterToken("."), IdentToken(Str_c)>>
Piece_class_b == <<DelimiterToken("."), IdentToken(Str_b)>>
Piece_plus == <<DelimiterToken("+")>>
Piece_tilde == <<DelimiterToken("~")>>
Piece_is_a_b ==
    Piece_is \o Piece_class_a \o Piece_comma \o Piece_space \o Piece_class_b \o Piece_close

\* div  .a  .c  :hover  :is(.a, .b)  (space)  >  +  ~  ,
CombinatorPieces ==
    {Piece_div, Piece_class_a, Piece_class_c, Piece_hover, Piece_is_a_b, Piece_space,
     Piece_child, Piece_plus, Piece_tilde, Piece_comma}

NextCombinator ==
    \/ AddPiece(CombinatorPieces, MaxCombinatorPieces)
    \/ CallParseSelector

SpecCombinator == Init /\ [][NextCombinator]_vars

\* Selectors in which the failure flag is set before, inside and after
\* forgiving lists: .a after ::before sets it and is returned, ::before inside
\* :is() sets it and is not.
MaxFailurePieces == 5

\* .a  ::before  (space)  ,  :is(  :host(  )
FailurePieces ==
    {Piece_class_a, Piece_before, Piece_space, Piece_comma, Piece_is, Piece_host,
     Piece_close}

NextFailure ==
    \/ AddPiece(FailurePieces, MaxFailurePieces)
    \/ CallParseSelector

SpecFailure == Init /\ [][NextFailure]_vars

\* Selectors with pseudo-elements inside the arguments of the pseudos that take
\* selectors.
MaxNestedPieces == 4

Piece_where == <<ColonToken, FunctionToken(Str_where)>>
Piece_host_context == <<ColonToken, FunctionToken(Str_host_context)>>
Piece_webkit_any == <<ColonToken, FunctionToken(Str__webkit_any)>>
Piece_slotted == <<ColonToken, ColonToken, FunctionToken(Str_slotted)>>

\* .a  ::before  )  :is(  :where(  :not(  :has(  :host(  :host-context(
\* :-webkit-any(  ::cue(  ::slotted(
NestedPieces ==
    {Piece_class_a, Piece_before, Piece_close, Piece_is, Piece_where, Piece_not, Piece_has,
     Piece_host, Piece_host_context, Piece_webkit_any, Piece_cue, Piece_slotted}

NextNested ==
    \/ AddPiece(NestedPieces, MaxNestedPieces)
    \/ CallParseSelector

SpecNested == Init /\ [][NextNested]_vars

\* Selectors with :has() inside :has(), directly and through :is() and :not(),
\* three blocks deep.
MaxHasPieces == 5
MaxHasNesting == 3

\* .a  ,  )  :has(  :is(  :not(
NestedHasPieces ==
    {Piece_class_a, Piece_comma, Piece_close, Piece_has, Piece_is, Piece_not}

AddNestedHasPiece ==
    /\ phase = "build"
    /\ n_pieces < MaxHasPieces
    /\ \E piece \in NestedHasPieces :
           /\ OpenAtEnd(input \o piece, 0) <= MaxHasNesting
           /\ input' = input \o piece
    /\ n_pieces' = n_pieces + 1
    /\ UNCHANGED <<mode, sheet, phase, result>>

NextNestedHas ==
    \/ AddNestedHasPiece
    \/ CallParseSelector

SpecNestedHas == Init /\ [][NextNestedHas]_vars

\* Selectors with compounds, complex selectors and comma lists inside the
\* pseudos that take compound selectors only.
MaxCompoundPieces == 4

Piece_a_space_a == Piece_class_a \o Piece_space \o Piece_class_a

\* .a  .a .a  ,  )  :host(  :host-context(  :-webkit-any(  ::cue(  ::slotted(
\* :is(  :where(  :not(
CompoundPieces ==
    {Piece_class_a, Piece_a_space_a, Piece_comma, Piece_close, Piece_host,
     Piece_host_context, Piece_webkit_any, Piece_cue, Piece_slotted, Piece_is, Piece_where,
     Piece_not}

NextCompound ==
    \/ AddPiece(CompoundPieces, MaxCompoundPieces)
    \/ CallParseSelector

SpecCompound == Init /\ [][NextCompound]_vars

\* Selectors with :is() and :not() after a pseudo-element of their compound.
MaxAfterPieces == 4

\* ::part(x)  ::before  :is(  :not(  div  .a  :hover  )  ,
AfterPseudoElementPieces ==
    {Piece_part_x, Piece_before, Piece_is, Piece_not, Piece_div, Piece_class_a, Piece_hover,
     Piece_close, Piece_comma}

NextAfterPseudoElement ==
    \/ AddPiece(AfterPseudoElementPieces, MaxAfterPieces)
    \/ CallParseSelector

SpecAfterPseudoElement == Init /\ [][NextAfterPseudoElement]_vars

\* Selectors parsed under a stylesheet that declares a default namespace:
\* compounds of div, * and .a, whitespace and commas, inside :is(, :where(,
\* :not(, :has( and ::cue(.
MaxDefaultNsPieces == 4

Piece_star == <<DelimiterToken("*")>>

DefaultNsPieces ==
    {Piece_div, Piece_star, Piece_class_a, Piece_space, Piece_comma, Piece_is, Piece_where,
     Piece_not, Piece_has, Piece_cue, Piece_close}

InitDefaultNs == InitWith({"kHTMLStandardMode"}, {DefaultNsStyleSheet})

NextDefaultNs ==
    \/ AddPiece(DefaultNsPieces, MaxDefaultNsPieces)
    \/ CallParseSelector

SpecDefaultNs == InitDefaultNs /\ [][NextDefaultNs]_vars

\* Compounds with host pseudo-classes and with the pseudo-elements matched
\* across a shadow boundary, parsed without a stylesheet and under a default
\* namespace: *, .a, :hover, :host, :host(, :is(, ::slotted(, ::part(x),
\* ::placeholder and ).
MaxShadowPieces == 4

Piece_host_ident == <<ColonToken, IdentToken(Str_host)>>

Piece_placeholder == <<ColonToken, ColonToken, IdentToken(Str_placeholder)>>

ShadowPieces ==
    {Piece_star, Piece_class_a, Piece_hover, Piece_host_ident, Piece_host, Piece_is,
     Piece_slotted, Piece_part_x, Piece_placeholder, Piece_close}

InitShadow == InitWith({"kHTMLStandardMode"}, {NoStyleSheet, DefaultNsStyleSheet})

NextShadow ==
    \/ AddPiece(ShadowPieces, MaxShadowPieces)
    \/ CallParseSelector

SpecShadow == InitShadow /\ [][NextShadow]_vars

\* Compounds with several pseudo-elements: .a, :hover, ::before, ::marker,
\* ::slotted(, ::part(x), ::placeholder and ).
MaxElementPieces == 5

Piece_marker == <<ColonToken, ColonToken, IdentToken(Str_marker)>>

ElementPieces ==
    {Piece_class_a, Piece_hover, Piece_before, Piece_marker, Piece_slotted, Piece_part_x,
     Piece_placeholder, Piece_close}

NextElements ==
    \/ AddPiece(ElementPieces, MaxElementPieces)
    \/ CallParseSelector

SpecElements == Init /\ [][NextElements]_vars

\* An+B arguments at the limits of int: numbers and dimensions equal to the
\* greatest and the least int and beyond them, and the identifiers
\* n-2147483648 and n-2147483649.
MaxNthLimitTokens == 3

Str_n_2147483648 == <<"n", "-", "2", "1", "4", "7", "4", "8", "3", "6", "4", "8">>

Str_n_2147483649 == <<"n", "-", "2", "1", "4", "7", "4", "8", "3", "6", "4", "9">>

NthLimitTokens ==
    { IdentToken(Str_n), IdentToken(Str__n), IdentToken(Str_n_)
    , IdentToken(Str_n_2147483648), IdentToken(Str_n_2147483649)
    , DimensionToken(2, "kIntegerValueType", "kNoSign", Str_n)
    , BeyondInt(DimensionToken(0, "kIntegerValueType", "kNoSign", Str_n))
    , BeyondInt(DimensionToken(0, "kIntegerValueType", "kMinusSign", Str_n_))
    , NumberToken(3, "kIntegerValueType", "kNoSign")
    , NumberToken(IntMax, "kIntegerValueType", "kNoSign")
    , BeyondInt(NumberToken(0, "kIntegerValueType", "kNoSign"))
    , BeyondInt(NumberToken(0, "kIntegerValueType", "kPlusSign"))
    , NumberToken(-3, "kIntegerValueType", "kMinusSign")
    , NumberToken(IntMin, "kIntegerValueType", "kMinusSign")
    , BeyondInt(NumberToken(0, "kIntegerValueType", "kMinusSign"))
    , DelimiterToken("+"), DelimiterToken("-")
    , WhitespaceToken }

NthLimitPieces == {<<token>> : token \in NthLimitTokens}

NextNthLimits ==
    \/ AddPiece(NthLimitPieces, MaxNthLimitTokens)
    \/ CallConsumeANPlusB

SpecNthLimits == Init /\ [][NextNthLimits]_vars

\* Selectors with :has() and relative selectors in it: members that start
\* with no combinator, with whitespace or with > + ~, several members, :is()
\* around them, and the name -internal-relative-anchor written as a
\* pseudo-class.
MaxRelativePieces == 4

Piece_relative_anchor == <<ColonToken, IdentToken(Str__internal_relative_anchor)>>

RelativePieces ==
    {Piece_has, Piece_is, Piece_close, Piece_class_a, Piece_comma, Piece_space,
     Piece_child, Piece_plus, Piece_tilde, Piece_relative_anchor}

NextRelative == AddPiece(RelativePieces, MaxRelativePieces) \/ CallParseSelector

SpecRelative == Init /\ [][NextRelative]_vars

\* Selectors with several :has(), with and without pseudo-classes and
\* complex selectors in :is() and :not() in their arguments.
MaxMarkPieces == 5

Piece_is_a_space_a == Piece_is \o Piece_a_space_a \o Piece_close

Piece_not_a_space_a == Piece_not \o Piece_a_space_a \o Piece_close

\* .a  :hover  :has(  :is(.a .a)  :not(.a .a)  )
MarkPieces ==
    {Piece_class_a, Piece_hover, Piece_has, Piece_is_a_space_a, Piece_not_a_space_a,
     Piece_close}

NextMarks == AddPiece(MarkPieces, MaxMarkPieces) \/ CallParseSelector

SpecMarks == Init /\ [][NextMarks]_vars

\* Pseudos by name, with one colon and with two, in a page and in the UA
\* sheet: names of the table, and names it does not hold that start with
\* -webkit-, with -moz-, with -internal-, with -- and with a letter.
MaxNamePieces == 3

\* :  hover  foo  -webkit-foo  -moz-foo  -internal-foo  --foo  -webkit-foo(  )  .a
NamePieces ==
    {<<ColonToken>>, <<IdentToken(Str_hover)>>, <<IdentToken(Str_foo)>>,
     <<IdentToken(Str__webkit_foo)>>, <<IdentToken(Str__moz_foo)>>,
     <<IdentToken(Str__internal_foo)>>, <<IdentToken(Str___foo)>>,
     <<FunctionToken(Str__webkit_foo)>>, Piece_close, Piece_class_a}

NextNames == AddPiece(NamePieces, MaxNamePieces) \/ CallParseSelector

SpecNames == InitPseudo /\ [][NextNames]_vars

\* Selectors with every loop of the parser in them: comma lists at the top
\* and in :is(), :host() and :has(), complex selectors, compounds of several
\* simple selectors, and ::part() with one name and with several, given to
\* ParseSelector and to SupportsComplexSelector.
MaxLoopPieces == 4

Piece_part == <<ColonToken, ColonToken, FunctionToken(Str_part)>>

Piece_x == <<IdentToken(Str_x)>>

\* .a  x  (space)  ,  :is(  :host(  :has(  ::part(  )
LoopPieces ==
    {Piece_class_a, Piece_x, Piece_space, Piece_comma, Piece_is, Piece_host, Piece_has,
     Piece_part, Piece_close}

NextLoops ==
    \/ AddPiece(LoopPieces, MaxLoopPieces)
    \/ CallParseSelector
    \/ CallSupportsComplexSelector

SpecLoops == Init /\ [][NextLoops]_vars

\* Attribute selectors put together part by part: `[` and the name, the
\* operator, the value, the flag and the end of the block, each part taken
\* from the forms ConsumeAttribute accepts and from forms it does not, and
\* then the selectors that follow; under no style sheet, a sheet with the
\* prefix ns and a sheet with a default namespace too.
MaxAttributeParts == 6

StringToken(value) == Token("kStringToken", value, "", 0, "kIntegerValueType", "kNoSign")

Name_x == <<IdentToken(Str_x)>>

Name_ns_x == <<IdentToken(Str_ns), DelimiterToken("|"), IdentToken(Str_x)>>

Name_bogus_x == <<IdentToken(Str_bogus), DelimiterToken("|"), IdentToken(Str_x)>>

Name_star_x == <<DelimiterToken("*"), DelimiterToken("|"), IdentToken(Str_x)>>

Name_bar_x == <<DelimiterToken("|"), IdentToken(Str_x)>>

\* x  ns|x  bogus|x  *|x  |x  *  3
AttributeNames ==
    {Name_x, Name_ns_x, Name_bogus_x, Name_star_x, Name_bar_x, <<DelimiterToken("*")>>,
     <<NumberToken(3, "kIntegerValueType", "kNoSign")>>}

\* (none)  =  ~=  |=  ^=  $=  *=  >
AttributeOperators ==
    {<<>>, <<DelimiterToken("=")>>, <<PlainToken("kIncludeMatchToken")>>,
     <<PlainToken("kDashMatchToken")>>, <<PlainToken("kPrefixMatchToken")>>,
     <<PlainToken("kSuffixMatchToken")>>, <<PlainToken("kSubstringMatchToken")>>,
     <<DelimiterToken(">")>>}

\* (none)  a  "a"  3
AttributeValues ==
    {<<>>, <<IdentToken(Str_a)>>, <<StringToken(Str_a)>>,
     <<NumberToken(3, "kIntegerValueType", "kNoSign")>>}

\* (none)  i  s  x, after whitespace
AttributeFlags ==
    {<<>>, <<WhitespaceToken, IdentToken(Str_i)>>, <<WhitespaceToken, IdentToken(Str_s)>>,
     <<WhitespaceToken, IdentToken(Str_x)>>}

\* ]  (space)]  (space)x]  (the end of the input)
AttributeEnds ==
    {<<RightBracketToken>>, <<WhitespaceToken, RightBracketToken>>,
     <<WhitespaceToken, IdentToken(Str_x), RightBracketToken>>, <<>>}

\* .a  [x]
AfterAttribute == {Piece_class_a, <<LeftBracketToken>> \o Name_x \o <<RightBracketToken>>}

AttributeParts ==
    <<{<<LeftBracketToken>> \o name : name \in AttributeNames}, AttributeOperators,
      AttributeValues, AttributeFlags, AttributeEnds>>

\* The forms of the part that comes after n parts.
AttributePartsAfter(n) ==
    IF n < Len(AttributeParts) THEN AttributeParts[n + 1] ELSE AfterAttribute

NextAttributes ==
    \/ AddPiece(AttributePartsAfter(n_pieces), MaxAttributeParts)
    \/ CallParseSelector

SpecAttributes == InitNamespace /\ [][NextAttributes]_vars

(***************************************************************************)
(* The properties.                                                         *)
(***************************************************************************)
\* The spans of a range between its top-level commas; a comma inside a block
\* belongs to the block.
RECURSIVE CommaSpans(_, _, _)
CommaSpans(range, span, level) ==
    IF range = <<>> THEN <<span>>
    ELSE LET token == Head(range)
             block_type == GetBlockType(token)
         IN  IF token.type = "kCommaToken" /\ level = 0
             THEN <<span>> \o CommaSpans(Tail(range), <<>>, 0)
             ELSE CommaSpans(Tail(range), Append(span, token),
                             IF block_type = "kBlockStart" THEN level + 1
                             ELSE IF block_type = "kBlockEnd" /\ level > 0 THEN level - 1
                             ELSE level)

\* One span parsed on its own as a complex selector, and whether that parse
\* returns a selector with the failure flag clear and no token of the span left.
ParsedAlone(span, p) == ConsumeComplexSelector(ConsumeWhitespace(span), p)

ParsesAlone(span, p) ==
    LET r == ParsedAlone(span, p)
    IN  r.selector # nullptr /\ ~r.parser.failed_parsing_ /\ AtEnd(r.range)

TopLevelMembers == CommaSpans(ConsumeWhitespace(input), <<>>, 0)

EveryMemberParses ==
    \A i \in 1..Len(TopLevelMembers) : ParsesAlone(TopLevelMembers[i], NewParser(mode, sheet))

\* C1: ParseSelector is all-or-nothing. It returns the selectors of all the
\* comma-separated members when every one of them parses, the failure flag is
\* clear and no token is left; otherwise (empty input, a token left after the
\* last selector, a member that fails) it returns the empty list, never the
\* members that did parse.
C1_ParseSelectorAllOrNothing ==
    phase = "ParseSelector" =>
        /\ result.list =
               IF EveryMemberParses
               THEN [i \in 1..Len(TopLevelMembers) |->
                        ParsedAlone(TopLevelMembers[i], NewParser(mode, sheet)).selector]
               ELSE <<>>
        /\ result.list # <<>> =>
               /\ ~result.parser.failed_parsing_
               /\ AtEnd(result.range)
               /\ Len(result.list) = Len(TopLevelMembers)
        /\ (input = <<>> \/ ~AtEnd(result.range) \/ result.parser.failed_parsing_) =>
               result.list = <<>>

\* C1 witness: `div, .a)` was parsed: its first member parses, a token is left
\* after the second, and nothing is returned.
C1_Witness ==
    /\ phase = "ParseSelector"
    /\ input = Piece_div \o Piece_comma \o Piece_class_a \o Piece_close
    /\ ParsesAlone(TopLevelMembers[1], NewParser(mode, sheet))
    /\ ~AtEnd(result.range)
    /\ result.list = <<>>

\* The calls the parse made, in the order they returned.
Calls == result.parser.call_log

CallsOf(fn) == {i \in 1..Len(Calls) : Calls[i].fn = fn}

\* The parser a call was entered with, the failure flag cleared.
EnteredWith(call) ==
    WithMembers(NewParser(mode, sheet), [call.entry EXCEPT !.failed_parsing_ = FALSE])

\* The selectors, in source order, of the spans that parse alone.
RECURSIVE SurvivingMembers(_, _)
SurvivingMembers(spans, p) ==
    IF spans = <<>> THEN <<>>
    ELSE (IF ParsesAlone(Head(spans), p) THEN <<ParsedAlone(Head(spans), p).selector>>
          ELSE <<>>) \o SurvivingMembers(Tail(spans), p)

\* The pseudo a range starts with: its name when the range starts with one
\* colon and a function token, the null atom otherwise.
FunctionalPseudoClassName(range) ==
    IF /\ Len(range) >= 2
       /\ range[1].type = "kColonToken"
       /\ range[2].type = "kFunctionToken"
    THEN ToASCIILower(range[2].value)
    ELSE g_null_atom

\* C2: a forgiving complex selector list returns exactly the members, in source
\* order, that parse as a complex selector with the failure flag clear and
\* every token of their comma-delimited span consumed; the other members are
\* dropped, and the :is() or :where() around the list is accepted with the
\* members that survive, even when there is none.
C2_ForgivingListKeepsValidMembers ==
    phase = "ParseSelector" =>
        /\ \A i \in CallsOf("ConsumeForgivingComplexSelectorList") :
               Calls[i].list = SurvivingMembers(CommaSpans(Calls[i].range, <<>>, 0),
                                                EnteredWith(Calls[i]))
        /\ \A i \in CallsOf("ConsumePseudo") :
               (/\ FunctionalPseudoClassName(Calls[i].range) \in {Str_is, Str_where}
                /\ ~Calls[i].entry.inside_compound_pseudo_)
               => /\ Calls[i].selector # nullptr
                  /\ i > 1
                  /\ Calls[i - 1].fn = "ConsumeForgivingComplexSelectorList"
                  /\ Head(Calls[i].selector).selector_list = Calls[i - 1].list

\* C2 witness: `:is(.a,)` was parsed; the list inside has two spans, the
\* second is dropped, and the selector returned holds `.a` alone.
C2_Witness ==
    /\ phase = "ParseSelector"
    /\ input = Piece_is \o Piece_class_a \o Piece_comma \o Piece_close
    /\ Len(result.list) = 1
    /\ Len(Head(result.list[1]).selector_list) = 1
    /\ Head(Head(result.list[1]).selector_list[1]).value = Str_a
    /\ \E i \in CallsOf("ConsumeForgivingComplexSelectorList") :
           /\ Len(CommaSpans(Calls[i].range, <<>>, 0)) = 2
           /\ Len(Calls[i].list) = 1

\* No member of the range of a relative selector list call parses alone as a
\* relative selector: the list is empty after its invalid members are dropped.
NoMemberSurvives(call) ==
    \A span \in {CommaSpans(call.range, <<>>, 0)[j] :
                     j \in 1..Len(CommaSpans(call.range, <<>>, 0))} :
        LET r == ConsumeRelativeSelector(span, EnteredWith(call))
        IN  ~(r.selector # nullptr /\ ~r.parser.failed_parsing_ /\ AtEnd(r.range))

\* The names of the blocks open before token k of the input, outermost first.
RECURSIVE OpenBlocks(_, _, _)
OpenBlocks(i, k, stack) ==
    IF i >= k THEN stack
    ELSE LET block_type == GetBlockType(input[i])
         IN  OpenBlocks(i + 1, k,
                        IF block_type = "kBlockStart"
                        THEN Append(stack, ToASCIILower(input[i].value))
                        ELSE IF block_type = "kBlockEnd" /\ stack # <<>>
                        THEN SubSeq(stack, 1, Len(stack) - 1)
                        ELSE stack)

\* The position of the token that closes the block open at token k (one past
\* the end of the input when the block is not closed).
RECURSIVE BlockEndFrom(_, _)
BlockEndFrom(j, level) ==
    IF j > Len(input) THEN j
    ELSE LET block_type == GetBlockType(input[j])
         IN  IF block_type = "kBlockEnd" /\ level = 0 THEN j
             ELSE BlockEndFrom(j + 1, IF block_type = "kBlockStart" THEN level + 1
                                      ELSE IF block_type = "kBlockEnd" THEN level - 1
                                      ELSE level)

\* The range a method sees at token k of the input when no forgiving list cut
\* it: the tokens from k to the end of the innermost open block.
RangeAt(k) ==
    IF OpenBlocks(1, k, <<>>) = <<>> THEN SubSeq(input, k, Len(input))
    ELSE SubSeq(input, k, BlockEndFrom(k, 0) - 1)

\* The range starts at a place of the input that no :is(), :where() or :has()
\* block encloses.
OutsideForgivingList(range) ==
    \E k \in 1..Len(input) :
        /\ RangeAt(k) = range
        /\ \A j \in 1..Len(OpenBlocks(1, k, <<>>)) :
               OpenBlocks(1, k, <<>>)[j] \notin {Str_is, Str_where, Str_has}

\* The range with the name of the functional pseudo it starts with replaced.
Renamed(range, name) == [range EXCEPT ![2] = FunctionToken(name)]

HasIsRestricted(members) ==
    \/ members.inside_compound_pseudo_
    \/ members.restricting_pseudo_element_ # "kPseudoUnknown"

\* What follows, in every case, from a :has() whose relative selector list is
\* empty after dropping: the list call returns the empty list, ConsumePseudo
\* returns no selector, the failure flag is set when ConsumeSimpleSelector
\* returns, ParseSelector returns the empty list when the :has() is outside
\* any forgiving list, and :is() with the same argument is accepted.
EmptyHasIsRejected(i) ==
    /\ Calls[i].list = <<>>
    /\ Calls[i + 1].fn = "ConsumePseudo"
    /\ FunctionalPseudoClassName(Calls[i + 1].range) = Str_has
    /\ Calls[i + 1].selector = nullptr
    /\ Calls[i + 2].fn = "ConsumeSimpleSelector"
    /\ Calls[i + 2].exit.failed_parsing_
    /\ OutsideForgivingList(Calls[i + 1].range) => result.list = <<>>
    /\ LET as_is == ConsumePseudo(Renamed(Calls[i + 1].range, Str_is),
                                  WithMembers(NewParser(mode, sheet), Calls[i + 1].entry))
       IN  /\ as_is.selector # nullptr
           /\ Head(as_is.selector).pseudo_type = "kPseudoIs"
           /\ as_is.parser.failed_parsing_ = Calls[i + 1].entry.failed_parsing_

\* C3 as stated: whenever the relative selector list of a :has() is empty
\* after dropping its invalid members, ConsumeForgivingRelativeSelectorList
\* sets the failure flag, ConsumePseudo returns no selector, and ParseSelector
\* returns the empty list for a :has() outside any forgiving list.
C3_AsStated ==
    phase = "ParseSelector" =>
        \A i \in CallsOf("ConsumeForgivingRelativeSelectorList") :
            NoMemberSurvives(Calls[i]) =>
                /\ Calls[i].exit.failed_parsing_
                /\ EmptyHasIsRejected(i)

\* C3: a :has() whose relative selector list is empty after dropping its
\* invalid members is a parse failure. ConsumeForgivingRelativeSelectorList
\* sets the failure flag itself unless the :has() is inside a compound-only
\* pseudo or follows a pseudo-element, where it returns the empty list and
\* leaves the flag as it was; in both cases ConsumePseudo returns no selector,
\* ConsumeSimpleSelector leaves the flag set, ParseSelector returns the empty
\* list when the :has() is outside any forgiving list, and :is() with the
\* same argument is accepted.
C3_EmptyHasFails ==
    phase = "ParseSelector" =>
        \A i \in CallsOf("ConsumeForgivingRelativeSelectorList") :
            NoMemberSurvives(Calls[i]) =>
                /\ Calls[i].exit.failed_parsing_ =
                       (Calls[i].entry.failed_parsing_ \/ ~HasIsRestricted(Calls[i].entry))
                /\ EmptyHasIsRejected(i)

\* C3 witness: `:has(::part(x))` was parsed; the only member of the list is
\* dropped, the list call set the failure flag and nothing is returned.
C3_Witness ==
    /\ phase = "ParseSelector"
    /\ input = Piece_has \o Piece_part_x \o Piece_close
    /\ result.list = <<>>
    /\ \E i \in CallsOf("ConsumeForgivingRelativeSelectorList") :
           /\ Calls[i].range # <<>>
           /\ NoMemberSurvives(Calls[i])
           /\ ~Calls[i].entry.failed_parsing_
           /\ Calls[i].exit.failed_parsing_
           /\ OutsideForgivingList(Calls[i + 1].range)

\* One member of a nested selector list parsed on its own, as the list parses
\* it: as a compound selector inside a compound-only pseudo, as a complex
\* selector otherwise.
NestedMemberAlone(span, p) ==
    IF p.inside_compound_pseudo_
    THEN LET compound == ConsumeCompoundSelector(ConsumeWhitespace(span), p)
         IN  [compound EXCEPT !.range = ConsumeWhitespace(@)]
    ELSE ParsedAlone(span, p)

NestedMemberParses(span, p) ==
    LET r == NestedMemberAlone(span, p)
    IN  r.selector # nullptr /\ ~r.parser.failed_parsing_ /\ AtEnd(r.range)

\* C4: :not() is not forgiving. The list of a :not() is returned only when
\* every one of its comma-separated members parses with the failure flag clear
\* and nothing left of its span, and then it holds all of them in source order;
\* otherwise ConsumePseudo returns no selector for the :not(), the failure
\* flag is set when ConsumeSimpleSelector returns, and ParseSelector returns
\* the empty list when the :not() is outside any forgiving list.  So an
\* accepted :not() never holds some of the members without the others.
C4_NotIsNotForgiving ==
    phase = "ParseSelector" =>
        \A i \in CallsOf("ConsumeNestedSelectorList") :
            LET spans == CommaSpans(Calls[i].range, <<>>, 0)
                p == EnteredWith(Calls[i])
            IN  /\ Calls[i + 1].fn = "ConsumePseudo"
                /\ FunctionalPseudoClassName(Calls[i + 1].range) = Str_not
                /\ IF /\ ~Calls[i].entry.failed_parsing_
                      /\ \A j \in 1..Len(spans) : NestedMemberParses(spans[j], p)
                   THEN /\ Calls[i].list =
                               [j \in 1..Len(spans) |-> NestedMemberAlone(spans[j], p).selector]
                        /\ Calls[i + 1].selector # nullptr
                        /\ Head(Calls[i + 1].selector).pseudo_type = "kPseudoNot"
                        /\ Head(Calls[i + 1].selector).selector_list = Calls[i].list
                   ELSE /\ Calls[i + 1].selector = nullptr
                        /\ Calls[i + 2].fn = "ConsumeSimpleSelector"
                        /\ Calls[i + 2].exit.failed_parsing_
                        /\ OutsideForgivingList(Calls[i + 1].range) => result.list = <<>>

\* C4 witness: `:not(.a,)` was parsed; the first member of the list parses,
\* the second does not, the list call returned nothing and so did
\* ParseSelector.
C4_Witness ==
    /\ phase = "ParseSelector"
    /\ input = Piece_not \o Piece_class_a \o Piece_comma \o Piece_close
    /\ result.list = <<>>
    /\ \E i \in CallsOf("ConsumeNestedSelectorList") :
           /\ Len(CommaSpans(Calls[i].range, <<>>, 0)) = 2
           /\ NestedMemberParses(CommaSpans(Calls[i].range, <<>>, 0)[1], EnteredWith(Calls[i]))
           /\ ~NestedMemberParses(CommaSpans(Calls[i].range, <<>>, 0)[2], EnteredWith(Calls[i]))
           /\ Calls[i].list = <<>>
           /\ Calls[i + 1].selector = nullptr

\* The failure flag as ConsumeSimpleSelector finds it when the method it chose
\* has returned: as ConsumePseudo left it for a pseudo, as it was on entry for
\* the others (they do not touch it).
FlagBeforeCheck(i) ==
    IF i > 1 /\ Calls[i - 1].fn = "ConsumePseudo" /\ Calls[i - 1].range = Calls[i].range
    THEN Calls[i - 1].exit.failed_parsing_
    ELSE Calls[i].entry.failed_parsing_

\* The simple selector call i returned is legal after the pseudo-element of
\* its compound (after none, every simple selector is).
LegalInCompound(i) ==
    IsSimpleSelectorValidAfterPseudoElement(Head(Calls[i].selector),
                                            Calls[i].entry.restricting_pseudo_element_)

\* C5: outside UA-sheet mode ConsumeSimpleSelector sets the failure flag for a
\* simple selector exactly when the legality table does not allow it after the
\* pseudo-element of its compound (in UA-sheet mode it never does), so a
\* selector list is returned only when every simple selector is legal where it
\* stands; `div::before:hover` fails to parse and `::part(x):hover` parses.
C5_LegalityAfterPseudoElement ==
    phase # "build" =>
        /\ \A i \in CallsOf("ConsumeSimpleSelector") :
               Calls[i].selector # nullptr =>
                   Calls[i].exit.failed_parsing_ =
                       \/ FlagBeforeCheck(i)
                       \/ mode # "kUASheetMode" /\ ~LegalInCompound(i)
        /\ (mode # "kUASheetMode" /\ (result.list # <<>> \/ result.supported)) =>
               \A i \in CallsOf("ConsumeSimpleSelector") : LegalInCompound(i)
        /\ (mode # "kUASheetMode" /\ input = Piece_div \o Piece_before \o Piece_hover) =>
               /\ result.parser.failed_parsing_
               /\ result.list = <<>>
               /\ ~result.supported
        /\ input = Piece_part_x \o Piece_hover =>
               /\ ~result.parser.failed_parsing_
               /\ phase = "ParseSelector" => Len(result.list) = 1
               /\ phase = "SupportsComplexSelector" => result.supported

\* C5 witness: `div::before:hover` was given to ParseSelector in a page; the
\* call for :hover was entered after ::before, returned the selector, set the
\* failure flag, and nothing was returned.
C5_Witness ==
    /\ phase = "ParseSelector"
    /\ mode = "kHTMLStandardMode"
    /\ input = Piece_div \o Piece_before \o Piece_hover
    /\ result.list = <<>>
    /\ \E i \in CallsOf("ConsumeSimpleSelector") :
           /\ Calls[i].entry.restricting_pseudo_element_ = "kPseudoBefore"
           /\ Calls[i].selector # nullptr
           /\ Head(Calls[i].selector).pseudo_type = "kPseudoHover"
           /\ ~Calls[i].entry.failed_parsing_
           /\ Calls[i].exit.failed_parsing_

\* A pseudo-element that must be in the rightmost compound: any but a -webkit-
\* custom pseudo-element in UA-sheet mode.
RestrictedPseudoElement(simple) ==
    /\ simple.match = "kPseudoElement"
    /\ ~(mode = "kUASheetMode" /\ simple.pseudo_type = "kPseudoWebKitCustomElement")

\* In the complex selector written at the start of the range, a combinator and
\* a further compound follow a compound that holds such a pseudo-element.
RECURSIVE CompoundFollowsPseudoElement(_, _)
CompoundFollowsPseudoElement(range, p) ==
    LET compound == ConsumeCompoundSelector(range, p)
        following == ConsumeCombinator(compound.range)
        next == ConsumeCompoundSelector(following.range, compound.parser)
    IN  /\ compound.selector # nullptr
        /\ following.combinator # "kSubSelector"
        /\ next.selector # nullptr
        /\ \/ \E j \in 1..Len(compound.selector) :
                  RestrictedPseudoElement(compound.selector[j])
           \/ CompoundFollowsPseudoElement(following.range, compound.parser)

\* The relations inside a compound as written: between its simple selectors,
\* and the implicit shadow-crossing ones the parser puts before ::part(),
\* ::slotted() and the -webkit- pseudo-elements.
RelationsInCompound == {"kSubSelector", "kUAShadow", "kShadowPart", "kShadowSlot"}

\* Every such pseudo-element of a selector is in the compound written last: no
\* combinator stands between it and the head of the selector.
PseudoElementsInLastCompound(selector) ==
    \A j \in 1..Len(selector) :
        RestrictedPseudoElement(selector[j]) =>
            \A k \in 1..(j - 1) : selector[k].relation \in RelationsInCompound

\* C6: a complex selector in which a combinator and a further compound follow
\* a compound that holds a pseudo-element is rejected (no selector is returned,
\* and ParseSelector returns the empty list), a -webkit- custom pseudo-element
\* in UA-sheet mode excepted; so in every selector returned a pseudo-element
\* other than those is in the compound written last.
C6_PseudoElementInLastCompound ==
    /\ phase = "SupportsComplexSelector" =>
           /\ CompoundFollowsPseudoElement(ConsumeWhitespace(input),
                                           NewParser(mode, NoStyleSheet)) =>
                  (result.selector = nullptr /\ ~result.supported)
           /\ result.selector # nullptr => PseudoElementsInLastCompound(result.selector)
           /\ (mode = "kUASheetMode" /\ input = Piece_webkit_foo \o Piece_child \o Piece_div) =>
                  result.selector # nullptr
    /\ phase = "ParseSelector" =>
           /\ (\E i \in 1..Len(TopLevelMembers) :
                   CompoundFollowsPseudoElement(ConsumeWhitespace(TopLevelMembers[i]),
                                                NewParser(mode, sheet))) =>
                  result.list = <<>>
           /\ \A i \in 1..Len(result.list) : PseudoElementsInLastCompound(result.list[i])

\* C6 witness: `::before > div` was given to SupportsComplexSelector in a page;
\* a combinator and the compound `div` follow the compound with ::before, and
\* no selector is returned.
C6_Witness ==
    /\ phase = "SupportsComplexSelector"
    /\ mode = "kHTMLStandardMode"
    /\ input = Piece_before \o Piece_child \o Piece_div
    /\ CompoundFollowsPseudoElement(input, NewParser(mode, NoStyleSheet))
    /\ result.selector = nullptr

\* The An+B notation, written out from the forms it has.  NPart is what the
\* range starts with up to the n: the A it gives, what follows the n in the
\* same token ("" for nothing, "-" for a minus sign, "-digits" for a whole
\* B), and the tokens after it.
DecimalValue(digits) ==
    LET RECURSIVE Value(_, _)
        Value(i, acc) == IF i > Len(digits) THEN acc
                         ELSE Value(i + 1, acc * 10 + DigitValue(digits[i]))
    IN  Value(1, 0)

NotAnB == [valid |-> FALSE, a |-> 0, b |-> 0]

AnB(a, b) == [valid |-> TRUE, a |-> a, b |-> b]

\* The name of an ident or the unit of a dimension as n, n- or n-digits.
AfterN(name) ==
    IF Len(name) = 0 \/ name[1] \notin {"n", "N"} THEN "invalid"
    ELSE IF Len(name) = 1 THEN "n"
    ELSE IF name[2] # "-" THEN "invalid"
    ELSE IF Len(name) = 2 THEN "n-"
    ELSE IF \A i \in 3..Len(name) : name[i] \in Digits THEN "n-digits"
    ELSE "invalid"

WithoutWhitespace(range) == SelectSeq(range, LAMBDA token : token.type # "kWhitespaceToken")

IsInteger(token, signs) ==
    /\ token.type = "kNumberToken"
    /\ token.numeric_value_type = "kIntegerValueType"
    /\ token.numeric_sign \in signs

\* The B after an n part: a is the A, name the ident or unit the n is in, and
\* rest the tokens after it that are not whitespace.
BPart(a, name, rest) ==
    CASE AfterN(name) = "n-digits" /\ rest = <<>> ->
             AnB(a, -DecimalValue(SubSeq(name, 3, Len(name))))
      [] AfterN(name) = "n-" /\ Len(rest) = 1 /\ IsInteger(rest[1], {"kNoSign"}) ->
             AnB(a, -rest[1].numeric_value)
      [] AfterN(name) = "n" /\ rest = <<>> -> AnB(a, 0)
      [] AfterN(name) = "n" /\ Len(rest) = 1
                           /\ IsInteger(rest[1], {"kPlusSign", "kMinusSign"}) ->
             AnB(a, rest[1].numeric_value)
      [] AfterN(name) = "n" /\ Len(rest) = 2 /\ IsDelimiter(rest[1], "+")
                           /\ IsInteger(rest[2], {"kNoSign"}) ->
             AnB(a, rest[2].numeric_value)
      [] AfterN(name) = "n" /\ Len(rest) = 2 /\ IsDelimiter(rest[1], "-")
                           /\ IsInteger(rest[2], {"kNoSign"}) ->
             AnB(a, -rest[2].numeric_value)
      [] OTHER -> NotAnB

\* The (A,B) a token sequence denotes, if it is an An+B.
ANPlusBNotation(range) ==
    LET rest == WithoutWhitespace(Tail(range))
    IN  CASE range = <<>> -> NotAnB
          [] Len(range) >= 1 /\ IsInteger(range[1], {"kNoSign", "kPlusSign", "kMinusSign"}) ->
                 IF rest = <<>> THEN AnB(0, range[1].numeric_value) ELSE NotAnB
          [] Len(range) >= 1 /\ range[1].type = "kIdentToken"
                            /\ LowerASCII(range[1].value) \in {Str_odd, Str_even} ->
                 IF rest # <<>> THEN NotAnB
                 ELSE IF LowerASCII(range[1].value) = Str_odd THEN AnB(2, 1)
                 ELSE AnB(2, 0)
          [] Len(range) >= 1 /\ range[1].type = "kIdentToken"
                            /\ range[1].value[1] = "-" ->
                 BPart(-1, Tail(range[1].value), rest)
          [] Len(range) >= 1 /\ range[1].type = "kIdentToken"
                            /\ range[1].value[1] # "-" ->
                 BPart(1, range[1].value, rest)
          [] Len(range) >= 1 /\ range[1].type = "kDimensionToken"
                            /\ range[1].numeric_value_type = "kIntegerValueType" ->
                 BPart(range[1].numeric_value, range[1].value, rest)
          [] Len(range) >= 2 /\ IsDelimiter(range[1], "+")
                            /\ range[2].type = "kIdentToken" ->
                 BPart(1, range[2].value, WithoutWhitespace(Tail(Tail(range))))
          [] OTHER -> NotAnB

\* ConsumeANPlusB returned true and left nothing but whitespace, which is what
\* ConsumePseudo asks of it.
NthAccepted == result.nth.ok /\ AtEnd(ConsumeWhitespace(result.nth.range))

\* C7: ConsumeANPlusB maps the tokens of an An+B to its (A,B) and rejects every
\* other token sequence (it returns false, or leaves a token that makes
\* ConsumePseudo reject the pseudo-class): `odd` is (2,1), `even` (2,0), an
\* integer b (0,b), `n` (1,0), `2n+1` (2,1), `-n+3` (-1,3), and `foo` is rejected.
\* :nth-child() with the tokens as argument parses to a selector with that
\* (A,B), or not at all.
C7_ANPlusB ==
    /\ (phase = "ConsumeANPlusB" /\ Peek(input).type # "kWhitespaceToken") =>
           /\ NthAccepted = ANPlusBNotation(input).valid
           /\ NthAccepted =>
                  /\ result.nth.first = ANPlusBNotation(input).a
                  /\ result.nth.second = ANPlusBNotation(input).b
           /\ input = <<IdentToken(Str_odd)>> =>
                  (NthAccepted /\ result.nth.first = 2 /\ result.nth.second = 1)
           /\ input = <<IdentToken(Str_even)>> =>
                  (NthAccepted /\ result.nth.first = 2 /\ result.nth.second = 0)
           /\ input = <<NumberToken(3, "kIntegerValueType", "kNoSign")>> =>
                  (NthAccepted /\ result.nth.first = 0 /\ result.nth.second = 3)
           /\ input = <<IdentToken(Str_n)>> =>
                  (NthAccepted /\ result.nth.first = 1 /\ result.nth.second = 0)
           /\ input = <<DimensionToken(2, "kIntegerValueType", "kNoSign", Str_n),
                        NumberToken(1, "kIntegerValueType", "kPlusSign")>> =>
                  (NthAccepted /\ result.nth.first = 2 /\ result.nth.second = 1)
           /\ input = <<IdentToken(Str__n),
                        NumberToken(3, "kIntegerValueType", "kPlusSign")>> =>
                  (NthAccepted /\ result.nth.first = -1 /\ result.nth.second = 3)
           /\ input = <<IdentToken(Str_foo)>> => ~NthAccepted
    /\ phase = "ParseSelector" =>
           IF ANPlusBNotation(ConsumeWhitespace(input)).valid
           THEN /\ Len(result.list) = 1
                /\ Head(result.list[1]).pseudo_type = "kPseudoNthChild"
                /\ Head(result.list[1]).nth =
                       <<ANPlusBNotation(ConsumeWhitespace(input)).a,
                         ANPlusBNotation(ConsumeWhitespace(input)).b>>
           ELSE result.list = <<>>

\* C7 witness: ConsumeANPlusB was run on the tokens of `n - 3` that are not
\* whitespace (an ident, a sign delimiter, an integer without a sign) and
\* returned (1,-3).
C7_Witness ==
    /\ phase = "ConsumeANPlusB"
    /\ input = <<IdentToken(Str_n), DelimiterToken("-"),
                 NumberToken(3, "kIntegerValueType", "kNoSign")>>
    /\ NthAccepted
    /\ result.nth.first = 1
    /\ result.nth.second = -3

\* The calls of DetermineNamespace the parse made.
NamespaceCalls == result.parser.ns_log

\* The URI the stylesheet registers for a prefix, if it registers one.
Registered(prefix) == ~sheet.is_null /\ prefix \in DOMAIN sheet.namespaces_

\* C8: DetermineNamespace(prefix) returns the default namespace for a null
\* prefix (the wildcard when there is no stylesheet or while the default
\* namespace is ignored), the empty URI for an empty prefix, the wildcard for
\* `*`, the URI the stylesheet registers for any other prefix, and the null URI
\* when the prefix is not registered or there is no stylesheet; `ns|div` with
\* ns bound to U is a type selector in namespace U.
C8_DetermineNamespace ==
    phase = "ParseSelector" =>
        /\ \A i \in 1..Len(NamespaceCalls) :
               NamespaceCalls[i].uri =
                   CASE NamespaceCalls[i].prefix = g_null_atom ->
                            IF sheet.is_null \/ NamespaceCalls[i].ignore_default_namespace_
                            THEN g_star_atom
                            ELSE sheet.default_namespace_
                     [] NamespaceCalls[i].prefix = <<>> -> <<>>
                     [] NamespaceCalls[i].prefix = <<"*">> -> <<"*">>
                     [] OTHER ->
                            IF Registered(NamespaceCalls[i].prefix)
                            THEN sheet.namespaces_[NamespaceCalls[i].prefix]
                            ELSE g_null_atom
        /\ (input = Piece_ns_div /\ ~sheet.is_null) =>
               /\ Len(result.list) = 1
               /\ Head(result.list[1]).match = "kTag"
               /\ Head(result.list[1]).tag_local = Str_div
               /\ Head(result.list[1]).tag_uri = Uri_U

\* C8 witness: `::cue(div)` was parsed with a stylesheet that declares the
\* default namespace D; DetermineNamespace was called with a null prefix while
\* the default namespace was ignored (for div) and while it was not (for the
\* compound of ::cue), and returned the wildcard and D.
C8_Witness ==
    /\ phase = "ParseSelector"
    /\ sheet = DefaultNsStyleSheet
    /\ input = Piece_cue \o Piece_div \o Piece_close
    /\ \E i \in 1..Len(NamespaceCalls) :
           /\ NamespaceCalls[i].prefix = g_null_atom
           /\ NamespaceCalls[i].ignore_default_namespace_
           /\ NamespaceCalls[i].uri = g_star_atom
    /\ \E i \in 1..Len(NamespaceCalls) :
           /\ NamespaceCalls[i].prefix = g_null_atom
           /\ ~NamespaceCalls[i].ignore_default_namespace_
           /\ NamespaceCalls[i].uri = Uri_D

\* A name with a prefix the stylesheet does not register (or with any prefix
\* when there is no stylesheet) is written at token k of the input.
UnresolvedPrefixAt(k) ==
    /\ k + 2 <= Len(input)
    /\ input[k].type = "kIdentToken"
    /\ IsDelimiter(input[k + 1], "|")
    /\ input[k + 2].type = "kIdentToken" \/ IsDelimiter(input[k + 2], "*")
    /\ ~Registered(input[k].value)

\* No :is(), :where() or :has() block is open at token k.
NoForgivingListAround(k) ==
    \A j \in 1..Len(OpenBlocks(1, k, <<>>)) :
        OpenBlocks(1, k, <<>>)[j] \notin {Str_is, Str_where, Str_has}

\* C9: a type selector or attribute selector whose namespace prefix resolves to
\* the null URI makes the parse fail. ParseSelector returns the empty list
\* when such a name is written outside every forgiving list, and whenever
\* DetermineNamespace returned the null URI outside a forgiving list the
\* failure flag is set at the end; `bogus|div`, `bogus|div.a` and
\* `[bogus|x]` all fail, with and without a stylesheet.
C9_UnresolvedPrefixFails ==
    phase = "ParseSelector" =>
        /\ \A k \in 1..Len(input) :
               (UnresolvedPrefixAt(k) /\ NoForgivingListAround(k)) => result.list = <<>>
        /\ ((\E i \in 1..Len(NamespaceCalls) : NamespaceCalls[i].uri = g_null_atom)
              /\ \A k \in 1..Len(input) : NoForgivingListAround(k)) =>
               (result.parser.failed_parsing_ /\ result.list = <<>>)
        /\ input \in {Piece_bogus_div, Piece_bogus_div \o Piece_class_a, Piece_attr_bogus_x,
                      Piece_div \o Piece_attr_bogus_x} =>
               /\ \E i \in 1..Len(NamespaceCalls) : NamespaceCalls[i].uri = g_null_atom
               /\ result.parser.failed_parsing_
               /\ result.list = <<>>

\* C9 witness: `bogus|div.a` was parsed with a stylesheet that registers ns
\* only; DetermineNamespace returned the null URI for bogus, the failure flag
\* is set and nothing is returned, though every token was consumed.
C9_Witness ==
    /\ phase = "ParseSelector"
    /\ sheet = PrefixStyleSheet
    /\ input = Piece_bogus_div \o Piece_class_a
    /\ UnresolvedPrefixAt(1)
    /\ \E i \in 1..Len(NamespaceCalls) :
           NamespaceCalls[i].prefix = Str_bogus /\ NamespaceCalls[i].uri = g_null_atom
    /\ result.parser.failed_parsing_
    /\ AtEnd(result.range)
    /\ result.list = <<>>

\* The input given to ParseSelector with the same mode and no stylesheet.
ParsedAsList == ParseSelector(input, mode, NoStyleSheet)

\* A selector holds a -webkit- custom pseudo-element whose name is not in the
\* feature table.
HoldsUnknownWebkitPseudoElement(selector) ==
    \E j \in 1..Len(selector) :
        /\ selector[j].pseudo_type = "kPseudoWebKitCustomElement"
        /\ selector[j].value \notin FeatureTableKeys

\* C10: SupportsComplexSelector returns true exactly when the whole input,
\* after leading whitespace, parses as one complex selector (ParseSelector
\* returns a list of one selector for it: the failure flag is clear and no
\* token is left) and that selector holds no -webkit- custom pseudo-element
\* whose name is missing from the feature table; a comma list, a failed parse
\* and a token left all give false.
C10_SupportsComplexSelector ==
    phase = "SupportsComplexSelector" =>
        /\ result.supported =
               (/\ Len(ParsedAsList.list) = 1
                /\ ~HoldsUnknownWebkitPseudoElement(ParsedAsList.list[1]))
        /\ result.supported =>
               /\ ~result.parser.failed_parsing_
               /\ AtEnd(result.range)
               /\ result.selector = ParsedAsList.list[1]
        /\ (\/ Len(TopLevelMembers) > 1
            \/ result.parser.failed_parsing_
            \/ ~AtEnd(result.range)
            \/ result.selector = nullptr) => ~result.supported

\* C10 witness: `div::-webkit-foo` was given to SupportsComplexSelector; it
\* parses as one complex selector with the flag clear and no token left, and
\* false is returned for the unknown -webkit- pseudo-element.
C10_Witness ==
    /\ phase = "SupportsComplexSelector"
    /\ input = Piece_div \o Piece_webkit_foo
    /\ result.selector # nullptr
    /\ ~result.parser.failed_parsing_
    /\ AtEnd(result.range)
    /\ Len(ParsedAsList.list) = 1
    /\ HoldsUnknownWebkitPseudoElement(result.selector)
    /\ ~result.supported

\* A token a combinator is written with.
IsCombinatorToken(token) ==
    \/ token.type = "kWhitespaceToken"
    \/ Delimiter(token) \in {">", "+", "~"}

\* A range without the whitespace at its start and at its end.
RECURSIVE TrimWhitespaceAtEnd(_)
TrimWhitespaceAtEnd(range) ==
    IF range # <<>> /\ range[Len(range)].type = "kWhitespaceToken"
    THEN TrimWhitespaceAtEnd(SubSeq(range, 1, Len(range) - 1))
    ELSE range

TrimWhitespace(range) == TrimWhitespaceAtEnd(ConsumeWhitespace(range))

\* A range cut into runs, in source order: the tokens of a compound, then the
\* tokens written between it and the next compound, and so on.  The tokens
\* inside a block belong to the compound of the block.
RECURSIVE SplitRuns(_, _)
SplitRuns(range, level) ==
    IF range = <<>> THEN <<>>
    ELSE LET token == Head(range)
             between == level = 0 /\ IsCombinatorToken(token)
             block_type == GetBlockType(token)
             rest == SplitRuns(Tail(range),
                               IF block_type = "kBlockStart" THEN level + 1
                               ELSE IF block_type = "kBlockEnd" /\ level > 0 THEN level - 1
                               ELSE level)
         IN  IF rest # <<>> /\ Head(rest).between = between
             THEN <<[between |-> between, tokens |-> <<token>> \o Head(rest).tokens]>>
                      \o Tail(rest)
             ELSE <<[between |-> between, tokens |-> <<token>>]>> \o rest

\* The combinator the tokens between two compounds write: the one of the
\* delimiter when there is one, the descendant combinator for whitespace alone.
CombinatorWritten(tokens) ==
    LET delimiters == {k \in 1..Len(tokens) : Delimiter(tokens[k]) # "NUL"}
    IN  IF delimiters = {} THEN "kDescendant"
        ELSE IF Cardinality(delimiters) > 1 THEN "kSubSelector"
        ELSE CASE Delimiter(tokens[CHOOSE k \in delimiters : TRUE]) = ">" -> "kChild"
               [] Delimiter(tokens[CHOOSE k \in delimiters : TRUE]) = "+" ->
                      "kDirectAdjacent"
               [] Delimiter(tokens[CHOOSE k \in delimiters : TRUE]) = "~" ->
                      "kIndirectAdjacent"

\* The simple selectors the tokens of a compound write, in source order: a
\* name is a type selector, .name a class, :name and :name(...) a pseudo-class.
RECURSIVE SimpleSelectorsWritten(_)
SimpleSelectorsWritten(range) ==
    IF range = <<>> THEN <<>>
    ELSE CASE Head(range).type = "kIdentToken" ->
                  <<[match |-> "kTag", name |-> Head(range).value]>>
                      \o SimpleSelectorsWritten(Tail(range))
           [] Delimiter(Head(range)) = "." /\ PeekAt(range, 1).type = "kIdentToken" ->
                  <<[match |-> "kClass", name |-> range[2].value]>>
                      \o SimpleSelectorsWritten(SubSeq(range, 3, Len(range)))
           [] Head(range).type = "kColonToken" /\ PeekAt(range, 1).type = "kIdentToken" ->
                  <<[match |-> "kPseudoClass", name |-> range[2].value]>>
                      \o SimpleSelectorsWritten(SubSeq(range, 3, Len(range)))
           [] /\ Head(range).type = "kColonToken"
              /\ PeekAt(range, 1).type = "kFunctionToken" ->
                  <<[match |-> "kPseudoClass", name |-> range[2].value]>>
                      \o SimpleSelectorsWritten(ConsumeBlock(Tail(range)).range)
           [] OTHER -> <<[match |-> "kUnknown", name |-> g_null_atom]>>

\* The simple selectors of a written compound with their relations: each is
\* linked to the next as a sub-selector, and the last has the given relation.
CompoundWritten(tokens, relation) ==
    LET simples == SimpleSelectorsWritten(tokens)
    IN  [k \in 1..Len(simples) |->
            [match |-> simples[k].match, name |-> simples[k].name,
             relation |-> IF k = Len(simples) THEN relation ELSE "kSubSelector"]]

\* The chain the runs C1 c1 C2 ... c(n-1) Cn write: the simple selectors of
\* Cn, the last of them with the combinator c(n-1), then the chain of
\* C1 c1 ... C(n-1).
RECURSIVE ChainWritten(_)
ChainWritten(runs) ==
    IF Len(runs) <= 1
    THEN IF runs = <<>> THEN <<>> ELSE CompoundWritten(runs[1].tokens, "kSubSelector")
    ELSE CompoundWritten(runs[Len(runs)].tokens, CombinatorWritten(runs[Len(runs) - 1].tokens))
             \o ChainWritten(SubSeq(runs, 1, Len(runs) - 2))

\* What a returned chain holds: of each simple selector its match, its name and
\* its relation to the next one.
ChainReturned(selector) ==
    [k \in 1..Len(selector) |->
        [match |-> selector[k].match,
         name |-> IF selector[k].match = "kTag" THEN selector[k].tag_local
                  ELSE selector[k].value,
         relation |-> selector[k].relation]]

\* The runs of a member are compounds with one combinator between each two.
IsComplexSelectorWritten(runs) ==
    /\ Len(runs) % 2 = 1
    /\ \A k \in 1..Len(runs) :
           /\ runs[k].between = (k % 2 = 0)
           /\ runs[k].between =>
                  Cardinality({j \in 1..Len(runs[k].tokens) :
                                   Delimiter(runs[k].tokens[j]) # "NUL"}) <= 1

MemberRuns(i) == SplitRuns(TrimWhitespace(TopLevelMembers[i]), 0)

\* C11: the chain of an accepted complex selector C1 c1 C2 ... c(n-1) Cn holds
\* the simple selectors of the rightmost compound Cn first and continues
\* leftwards down to C1; inside a compound the simple selectors are linked as
\* sub-selectors in source order, and the last simple selector of C(i+1) has
\* the combinator written between Ci and C(i+1): descendant for whitespace
\* alone, and child, direct-adjacent or indirect-adjacent for > + ~ with or
\* without whitespace around it.  The list inside :is(.a, .b) holds .a and .b.
C11_ChainIsRightToLeft ==
    (phase = "ParseSelector" /\ result.list # <<>>) =>
        \A i \in 1..Len(result.list) :
            /\ IsComplexSelectorWritten(MemberRuns(i))
            /\ ChainReturned(result.list[i]) = ChainWritten(MemberRuns(i))
            /\ \A k \in 1..Len(result.list[i]) :
                   result.list[i][k].pseudo_type = "kPseudoIs" =>
                       /\ Len(result.list[i][k].selector_list) = 2
                       /\ ChainReturned(result.list[i][k].selector_list[1]) =
                              CompoundWritten(Piece_class_a, "kSubSelector")
                       /\ ChainReturned(result.list[i][k].selector_list[2]) =
                              CompoundWritten(Piece_class_b, "kSubSelector")

\* C11 witness: `:is(.a, .b) .c` was parsed and one selector returned: its head
\* is .c, linked as a descendant to :is(.a, .b), which ends the chain.
C11_Witness ==
    /\ phase = "ParseSelector"
    /\ input = Piece_is_a_b \o Piece_space \o Piece_class_c
    /\ Len(result.list) = 1
    /\ Len(result.list[1]) = 2
    /\ result.list[1][1].match = "kClass"
    /\ result.list[1][1].value = Str_c
    /\ result.list[1][1].relation = "kDescendant"
    /\ result.list[1][2].pseudo_type = "kPseudoIs"
    /\ Len(result.list[1][2].selector_list) = 2

\* The calls made outside the reset_failure scope of every forgiving list.
CallsOutsideForgivingMembers == {i \in 1..Len(Calls) : Calls[i].reset_failure_scopes = 0}

\* The selectors, in source order, of the spans that parse alone as a compound
\* selector, with at most whitespace left after it.
RECURSIVE SurvivingCompounds(_, _)
SurvivingCompounds(spans, p) ==
    IF spans = <<>> THEN <<>>
    ELSE LET r == ConsumeCompoundSelector(ConsumeWhitespace(Head(spans)), p)
         IN  (IF /\ r.selector # nullptr
                 /\ ~r.parser.failed_parsing_
                 /\ AtEndIgnoringWhitespace(r.range)
              THEN <<r.selector>>
              ELSE <<>>) \o SurvivingCompounds(Tail(spans), p)

\* C12: once the failure flag is set by a call made outside the scope of every
\* forgiving-list member, it is set at the return of every later such call and
\* at the end of the parse, and ParseSelector then returns the empty list.  A
\* forgiving list returns with the flag as it was when the list began, set or
\* not, and keeps exactly the members that parse with the flag cleared at
\* their start, whatever the flag was before the list and whatever the members
\* before them left.
C12_FailureFlagIsSticky ==
    phase = "ParseSelector" =>
        /\ result.parser.failed_parsing_ => result.list = <<>>
        /\ \A i \in CallsOutsideForgivingMembers :
               Calls[i].exit.failed_parsing_ =>
                   /\ result.parser.failed_parsing_
                   /\ \A j \in CallsOutsideForgivingMembers :
                          j > i => Calls[j].exit.failed_parsing_
        /\ \A i \in 1..Len(Calls) :
               Calls[i].entry.failed_parsing_ => Calls[i].exit.failed_parsing_
        /\ \A i \in CallsOf("ConsumeForgivingComplexSelectorList") :
               /\ Calls[i].exit.failed_parsing_ = Calls[i].entry.failed_parsing_
               /\ Calls[i].list = SurvivingMembers(CommaSpans(Calls[i].range, <<>>, 0),
                                                   EnteredWith(Calls[i]))
        /\ \A i \in CallsOf("ConsumeForgivingCompoundSelectorList") :
               /\ Calls[i].exit.failed_parsing_ = Calls[i].entry.failed_parsing_
               /\ Calls[i].list = SurvivingCompounds(CommaSpans(Calls[i].range, <<>>, 0),
                                                     EnteredWith(Calls[i]))

\* C12 witness: `::before.a :is(.a` was parsed.  The .a after ::before sets the
\* flag; the forgiving list of :is() is entered with the flag set, keeps its
\* member .a, and returns with the flag set; nothing is returned.
C12_Witness ==
    /\ phase = "ParseSelector"
    /\ input = Piece_before \o Piece_class_a \o Piece_space \o Piece_is \o Piece_class_a
    /\ \E i \in CallsOf("ConsumeForgivingComplexSelectorList") :
           /\ Calls[i].entry.failed_parsing_
           /\ Calls[i].exit.failed_parsing_
           /\ Len(Calls[i].list) = 1
           /\ \E j \in 1..(i - 1) :
                  /\ Calls[j].reset_failure_scopes = 1
                  /\ ~Calls[j].entry.failed_parsing_
    /\ result.parser.failed_parsing_
    /\ result.list = <<>>

\* The context flags of the parser among its members.
ContextFlags(members) ==
    [restricting_pseudo_element_ |-> members.restricting_pseudo_element_,
     disallow_pseudo_elements_ |-> members.disallow_pseudo_elements_,
     resist_default_namespace_ |-> members.resist_default_namespace_,
     ignore_default_namespace_ |-> members.ignore_default_namespace_,
     inside_compound_pseudo_ |-> members.inside_compound_pseudo_,
     is_inside_has_argument_ |-> members.is_inside_has_argument_,
     is_inside_logical_combination_in_has_argument_ |->
         members.is_inside_logical_combination_in_has_argument_]

\* The flags a parser has before it parsed anything.
InitialContextFlags == ContextFlags(Members(NewParser(mode, sheet)))

\* C13: ConsumeCompoundSelector and ConsumePseudo return, with a selector or
\* without, with the context flags (restricting pseudo-element, pseudo-elements
\* disallowed, resist default namespace, ignore default namespace, inside a
\* compound-only pseudo, inside :has(), inside a logical combination in :has())
\* they were entered with; so does ParseSelector, whose parser ends with the
\* flags it was made with.
C13_ContextFlagsAreRestored ==
    phase = "ParseSelector" =>
        /\ \A i \in CallsOf("ConsumeCompoundSelector") \cup CallsOf("ConsumePseudo") :
               ContextFlags(Calls[i].exit) = ContextFlags(Calls[i].entry)
        /\ ContextFlags(Members(result.parser)) = InitialContextFlags

\* C13 witness: `:is(.a)::part(x)` was parsed.  The compound .a inside :is() was
\* entered with pseudo-elements disallowed and the default namespace resisted;
\* ConsumePseudo returned :is(.a) with the flags it was entered with, and the
\* pseudo-element that follows it in the compound was accepted.
C13_Witness ==
    /\ phase = "ParseSelector"
    /\ input = Piece_is \o Piece_class_a \o Piece_close \o Piece_part_x
    /\ Len(result.list) = 1
    /\ \E i \in CallsOf("ConsumeCompoundSelector") :
           /\ Calls[i].entry.disallow_pseudo_elements_
           /\ Calls[i].entry.resist_default_namespace_
           /\ Calls[i].selector # nullptr
           /\ \E j \in CallsOf("ConsumePseudo") :
                  /\ j > i
                  /\ FunctionalPseudoClassName(Calls[j].range) = Str_is
                  /\ Calls[j].selector # nullptr
                  /\ ContextFlags(Calls[j].exit) = InitialContextFlags

\* A selector holds a pseudo-element, in its chain or in a selector list
\* nested in it at any depth.
RECURSIVE HoldsPseudoElement(_)
HoldsPseudoElement(selector) ==
    \E k \in 1..Len(selector) :
        \/ selector[k].match = "kPseudoElement"
        \/ \E m \in 1..Len(selector[k].selector_list) :
               HoldsPseudoElement(selector[k].selector_list[m])

\* No selector list nested in the selector, at any depth, holds a
\* pseudo-element.
NoPseudoElementInArguments(selector) ==
    \A k \in 1..Len(selector) :
        \A m \in 1..Len(selector[k].selector_list) :
            ~HoldsPseudoElement(selector[k].selector_list[m])

\* The pseudos whose argument is a selector or a list of selectors.
PseudosWithSelectors ==
    {Str_is, Str_where, Str_not, Str_has, Str_host, Str_host_context, Str__webkit_any,
     Str_cue, Str_slotted}

\* The range starts with a pseudo-element written with two colons.
WritesPseudoElement(range) ==
    /\ Len(range) >= 3
    /\ range[1].type = "kColonToken"
    /\ range[2].type = "kColonToken"
    /\ range[3].type \in {"kIdentToken", "kFunctionToken"}

\* Token k of the input starts one.
PseudoElementWrittenAt(k) == WritesPseudoElement(SubSeq(input, k, Len(input)))

\* Token k of the input lies in the argument of one of those pseudos, and no
\* forgiving list (of :is(), :where() or :has()) is around it.
InUnforgivingArgument(k) ==
    LET open == OpenBlocks(1, k, <<>>)
    IN  /\ \E j \in 1..Len(open) : open[j] \in PseudosWithSelectors
        /\ \A j \in 1..Len(open) : open[j] \notin {Str_is, Str_where, Str_has}

\* C14: no pseudo-element occurs, at any nesting depth, inside the argument of
\* :is(), :where(), :not(), :has(), :host(), :host-context(), :-webkit-any(),
\* ::cue() or ::slotted() in a selector that ParseSelector or ConsumePseudo
\* returns; ConsumePseudo returns no pseudo-element where they are disallowed,
\* and the failure flag is then set for the member; a pseudo-element written
\* in such an argument with no forgiving list around it makes ParseSelector
\* return the empty list.
C14_NoPseudoElementInArguments ==
    phase = "ParseSelector" =>
        /\ \A i \in 1..Len(result.list) : NoPseudoElementInArguments(result.list[i])
        /\ \A i \in CallsOf("ConsumePseudo") :
               /\ NoPseudoElementInArguments(Calls[i].selector)
               /\ Calls[i].entry.disallow_pseudo_elements_ =>
                      ~HoldsPseudoElement(Calls[i].selector)
               /\ (/\ Calls[i].entry.disallow_pseudo_elements_
                   /\ WritesPseudoElement(Calls[i].range)) =>
                      /\ Calls[i].selector = nullptr
                      /\ Calls[i + 1].fn = "ConsumeSimpleSelector"
                      /\ Calls[i + 1].exit.failed_parsing_
        /\ (\E k \in 1..Len(input) : PseudoElementWrittenAt(k) /\ InUnforgivingArgument(k))
               => result.list = <<>>

\* C14 witness: `:is(::before).a` was parsed.  ConsumePseudo returned nothing
\* for ::before, where pseudo-elements are disallowed, the member was dropped,
\* and the selector returned holds :is() with an empty list.
C14_Witness ==
    /\ phase = "ParseSelector"
    /\ input = Piece_is \o Piece_before \o Piece_close \o Piece_class_a
    /\ \E i \in CallsOf("ConsumePseudo") :
           /\ Calls[i].entry.disallow_pseudo_elements_
           /\ WritesPseudoElement(Calls[i].range)
           /\ Calls[i].selector = nullptr
    /\ Len(result.list) = 1
    /\ result.list[1][1].pseudo_type = "kPseudoIs"
    /\ result.list[1][1].selector_list = <<>>

\* A selector holds :has(), in its chain or in a selector list nested in it at
\* any depth.
RECURSIVE HoldsHas(_)
HoldsHas(selector) ==
    \E k \in 1..Len(selector) :
        \/ selector[k].pseudo_type = "kPseudoHas"
        \/ \E m \in 1..Len(selector[k].selector_list) :
               HoldsHas(selector[k].selector_list[m])

\* No :has() of the selector, at any depth, holds another :has() in its
\* argument, at any depth.
RECURSIVE NoHasInsideHas(_)
NoHasInsideHas(selector) ==
    \A k \in 1..Len(selector) :
        \A m \in 1..Len(selector[k].selector_list) :
            /\ selector[k].pseudo_type = "kPseudoHas" =>
                   ~HoldsHas(selector[k].selector_list[m])
            /\ NoHasInsideHas(selector[k].selector_list[m])

\* C15: no selector that ParseSelector or ConsumePseudo returns holds a :has()
\* anywhere inside the argument of another :has(), also not through :is(),
\* :where() or :not() between them.  ConsumePseudo returns nothing for a :has()
\* written inside the argument of a :has(), the failure flag is then set for
\* the list member that holds it, and a :has() whose list keeps no member is
\* not returned.
C15_NoHasInsideHas ==
    phase = "ParseSelector" =>
        /\ \A i \in 1..Len(result.list) : NoHasInsideHas(result.list[i])
        /\ \A i \in CallsOf("ConsumePseudo") :
               /\ NoHasInsideHas(Calls[i].selector)
               /\ Calls[i].entry.is_inside_has_argument_ => ~HoldsHas(Calls[i].selector)
               /\ (/\ Calls[i].entry.is_inside_has_argument_
                   /\ FunctionalPseudoClassName(Calls[i].range) = Str_has) =>
                      /\ Calls[i].selector = nullptr
                      /\ Calls[i + 1].fn = "ConsumeSimpleSelector"
                      /\ Calls[i + 1].exit.failed_parsing_
                      /\ Calls[i + 1].reset_failure_scopes > 0
               /\ (/\ FunctionalPseudoClassName(Calls[i].range) = Str_has
                   /\ ~Calls[i].entry.is_inside_has_argument_
                   /\ Calls[i].selector # nullptr) =>
                      Head(Calls[i].selector).selector_list # <<>>
        /\ \A i \in CallsOf("ConsumeForgivingRelativeSelectorList") :
               Calls[i].list = <<>> =>
                   /\ Calls[i + 1].fn = "ConsumePseudo"
                   /\ Calls[i + 1].selector = nullptr

\* C15 witness: `:has(:is(:has(.a` was parsed.  The inner :has() is inside the
\* argument of the outer one through :is(); ConsumePseudo returned nothing
\* for it, :is() dropped the member, the list of the outer :has() kept :is()
\* with its empty list, and the selector returned holds one :has() only.
C15_Witness ==
    /\ phase = "ParseSelector"
    /\ input = Piece_has \o Piece_is \o Piece_has \o Piece_class_a
    /\ \E i \in CallsOf("ConsumePseudo") :
           /\ Calls[i].entry.is_inside_has_argument_
           /\ Calls[i].entry.is_inside_logical_combination_in_has_argument_
           /\ FunctionalPseudoClassName(Calls[i].range) = Str_has
           /\ Calls[i].selector = nullptr
    /\ Len(result.list) = 1
    /\ result.list[1][1].pseudo_type = "kPseudoHas"
    /\ Len(result.list[1][1].selector_list) = 1
    /\ ~HoldsHas(result.list[1][1].selector_list[1])

\* The pseudos whose argument takes compound selectors only, by name and by
\* type, and those of them that take exactly one.
CompoundOnlyPseudos == {Str_host, Str_host_context, Str__webkit_any, Str_cue, Str_slotted}

CompoundOnlyPseudoTypes ==
    {"kPseudoHost", "kPseudoHostContext", "kPseudoAny", "kPseudoCue", "kPseudoSlotted"}

SingleCompoundPseudoTypes == {"kPseudoHost", "kPseudoHostContext", "kPseudoSlotted"}

\* A selector is one compound: no combinator links two of its simple selectors.
IsCompound(selector) == \A k \in 1..Len(selector) : selector[k].relation = "kSubSelector"

\* Every selector in the argument of a compound-only pseudo, and in the lists
\* nested in that argument at any depth, is one compound, and the pseudos
\* that take one compound hold one.  inside tells that the selector is itself
\* in such an argument.
RECURSIVE ArgumentsAreCompounds(_, _)
ArgumentsAreCompounds(selector, inside) ==
    /\ inside => IsCompound(selector)
    /\ \A k \in 1..Len(selector) :
           /\ (/\ selector[k].has_selector_list
               /\ selector[k].pseudo_type \in SingleCompoundPseudoTypes) =>
                  Len(selector[k].selector_list) = 1
           /\ \A m \in 1..Len(selector[k].selector_list) :
                  ArgumentsAreCompounds(
                      selector[k].selector_list[m],
                      inside \/ selector[k].pseudo_type \in CompoundOnlyPseudoTypes)

\* Token k of the input is whitespace between two compounds: a name before
\* it, the start of a simple selector after it.
CombinatorWrittenAt(k) ==
    /\ 1 < k /\ k < Len(input)
    /\ input[k].type = "kWhitespaceToken"
    /\ input[k - 1].type = "kIdentToken"
    /\ \/ input[k + 1].type \in {"kIdentToken", "kColonToken"}
       \/ Delimiter(input[k + 1]) = "."

\* Token k of the input lies in the argument of a compound-only pseudo, in it
\* or in a :not() nested in it, with no forgiving list around it.
InCompoundOnlyArgument(k) ==
    LET open == OpenBlocks(1, k, <<>>)
    IN  /\ \E j \in 1..Len(open) : open[j] \in CompoundOnlyPseudos
        /\ \A j \in 1..Len(open) : open[j] \notin {Str_is, Str_where, Str_has}

\* Token k of the input is a comma of the argument of :host(), :host-context()
\* or ::slotted() itself.
CommaInSingleCompoundArgument(k) ==
    LET open == OpenBlocks(1, k, <<>>)
    IN  /\ input[k].type = "kCommaToken"
        /\ open # <<>>
        /\ open[Len(open)] \in {Str_host, Str_host_context, Str_slotted}

\* C16: in every selector that ParseSelector or ConsumePseudo returns, each
\* selector in the argument of :host(), :host-context(), :-webkit-any(),
\* ::cue() or ::slotted(), and in a :is(), :where() or :not() nested in it at
\* any depth, is one compound, and :host(), :host-context() and ::slotted()
\* hold exactly one.  A combinator followed by another compound, or a comma
\* in :host(), :host-context() or ::slotted(), written there with no forgiving
\* list around it, makes ParseSelector return the empty list; inside a
\* forgiving list there the member is dropped.
C16_CompoundOnlyArguments ==
    phase = "ParseSelector" =>
        /\ \A i \in 1..Len(result.list) : ArgumentsAreCompounds(result.list[i], FALSE)
        /\ \A i \in CallsOf("ConsumePseudo") :
               ArgumentsAreCompounds(Calls[i].selector,
                                     Calls[i].entry.inside_compound_pseudo_)
        /\ \A i \in CallsOf("ConsumeForgivingCompoundSelectorList") :
               \A m \in 1..Len(Calls[i].list) : IsCompound(Calls[i].list[m])
        /\ (\E k \in 1..Len(input) : CombinatorWrittenAt(k) /\ InCompoundOnlyArgument(k))
               => result.list = <<>>
        /\ (\E k \in 1..Len(input) :
                CommaInSingleCompoundArgument(k) /\ InCompoundOnlyArgument(k))
               => result.list = <<>>

\* C16 witness: `:host(:is(.a .a` was parsed.  The list of :is() is parsed as
\* a list of compounds: its member `.a .a` is dropped, and :host() is returned
\* with :is() as its one compound, the list of :is() empty.
C16_Witness ==
    /\ phase = "ParseSelector"
    /\ input = Piece_host \o Piece_is \o Piece_a_space_a
    /\ \E i \in CallsOf("ConsumeForgivingCompoundSelectorList") :
           /\ CombinatorWrittenAt(Len(input) - 2)
           /\ Len(CommaSpans(Calls[i].range, <<>>, 0)) = 1
           /\ Calls[i].list = <<>>
    /\ Len(result.list) = 1
    /\ result.list[1][1].pseudo_type = "kPseudoHost"
    /\ Len(result.list[1][1].selector_list) = 1
    /\ result.list[1][1].selector_list[1][1].pseudo_type = "kPseudoIs"
    /\ result.list[1][1].selector_list[1][1].selector_list = <<>>

\* Token k of the input starts a :has().
HasWrittenAt(k) == FunctionalPseudoClassName(SubSeq(input, k, Len(input))) = Str_has

\* Token k of the input lies in the argument of a pseudo that takes compound
\* selectors only (here :host()), with no forgiving list around it.
InHostArgument(k) ==
    LET open == OpenBlocks(1, k, <<>>)
    IN  /\ \E j \in 1..Len(open) : open[j] = Str_host
        /\ \A j \in 1..Len(open) : open[j] \notin {Str_is, Str_where, Str_has}

\* Token k of the input follows ::part(x) at the top level of the input.
FollowsPart(k) ==
    /\ k > Len(Piece_part_x)
    /\ SubSeq(input, k - Len(Piece_part_x), k - 1) = Piece_part_x
    /\ OpenBlocks(1, k, <<>>) = <<>>

\* The :has() of a call parsed where nothing restricts it.
UnrestrictedHas(call) ==
    ConsumePseudo(call.range,
                  WithMembers(NewParser(mode, sheet),
                              [call.entry EXCEPT !.inside_compound_pseudo_ = FALSE,
                                                 !.restricting_pseudo_element_ =
                                                     "kPseudoUnknown"]))

\* C17: for a :has() inside a pseudo that takes compound selectors only, or
\* after a pseudo-element of its compound, the relative selector list returns
\* the empty list, ConsumePseudo returns no selector, and the failure flag is
\* set when ConsumeSimpleSelector returns, whether the argument of the :has()
\* is a valid relative selector list or not.  Written there with no forgiving
\* list around it, the :has() makes ParseSelector return the empty list.
C17_HasInRestrictedPlace ==
    phase = "ParseSelector" =>
        /\ \A i \in CallsOf("ConsumePseudo") :
               (/\ FunctionalPseudoClassName(Calls[i].range) = Str_has
                /\ ~Calls[i].entry.is_inside_has_argument_
                /\ HasIsRestricted(Calls[i].entry)) =>
                   /\ Calls[i - 1].fn = "ConsumeForgivingRelativeSelectorList"
                   /\ Calls[i - 1].list = <<>>
                   /\ Calls[i].selector = nullptr
                   /\ Calls[i + 1].fn = "ConsumeSimpleSelector"
                   /\ Calls[i + 1].reset_failure_scopes = Calls[i].reset_failure_scopes
                   /\ Calls[i + 1].exit.failed_parsing_
        /\ (\E k \in 1..Len(input) : HasWrittenAt(k) /\ (InHostArgument(k) \/ FollowsPart(k)))
               => result.list = <<>>

\* C17 witness: `::part(x):has(.a` was parsed.  The argument .a is a valid
\* relative selector list (the same :has() is returned where nothing
\* restricts it), but after ::part(x) the list comes back empty,
\* ConsumePseudo returns nothing and the failure flag is set.
C17_Witness ==
    /\ phase = "ParseSelector"
    /\ input = Piece_part_x \o Piece_has \o Piece_class_a
    /\ \E i \in CallsOf("ConsumePseudo") :
           /\ FunctionalPseudoClassName(Calls[i].range) = Str_has
           /\ Calls[i].entry.restricting_pseudo_element_ = "kPseudoPart"
           /\ UnrestrictedHas(Calls[i]).selector # nullptr
           /\ Len(Head(UnrestrictedHas(Calls[i]).selector).selector_list) = 1
           /\ Calls[i].selector = nullptr
           /\ Calls[i + 1].exit.failed_parsing_
    /\ result.list = <<>>

\* Every simple selector of the selector, and of the selector lists nested in
\* it at any depth, is valid after the pseudo-element.
RECURSIVE ValidAfterPseudoElement(_, _)
ValidAfterPseudoElement(selector, compound_pseudo_element) ==
    \A k \in 1..Len(selector) :
        /\ IsSimpleSelectorValidAfterPseudoElement(selector[k], compound_pseudo_element)
        /\ \A m \in 1..Len(selector[k].selector_list) :
               ValidAfterPseudoElement(selector[k].selector_list[m],
                                       compound_pseudo_element)

\* The calls of ConsumePseudo that return a :is(), :where(), :not() or :has()
\* written after a pseudo-element of its compound.
LogicalPseudosAfterPseudoElement ==
    {i \in CallsOf("ConsumePseudo") :
        /\ Calls[i].selector # nullptr
        /\ Head(Calls[i].selector).pseudo_type \in
               {"kPseudoIs", "kPseudoWhere", "kPseudoNot", "kPseudoHas"}
        /\ Calls[i].entry.restricting_pseudo_element_ # "kPseudoUnknown"}

\* C18: when :is(), :where(), :not() or :has() follows a pseudo-element in a
\* compound (outside UA-sheet mode), every selector kept in its argument is
\* valid after that pseudo-element according to
\* IsSimpleSelectorValidAfterPseudoElement; a type or universal selector, an
\* id, a class, an attribute or a pseudo-class outside the table is not kept.
C18_NestedSelectorsAreValidAfterPseudoElement ==
    phase = "ParseSelector" =>
        \A i \in LogicalPseudosAfterPseudoElement :
            \A m \in 1..Len(Head(Calls[i].selector).selector_list) :
                ValidAfterPseudoElement(Head(Calls[i].selector).selector_list[m],
                                        Calls[i].entry.restricting_pseudo_element_)

(***************************************************************************)
(* C19: when the default namespace is ignored.                             *)
(***************************************************************************)
\* The tokens that follow a block whose opening token was taken, at depth
\* level inside it.
RECURSIVE AfterBlock(_, _)
AfterBlock(range, level) ==
    IF range = <<>> THEN <<>>
    ELSE IF GetBlockType(Head(range)) = "kBlockEnd"
    THEN IF level = 1 THEN Tail(range) ELSE AfterBlock(Tail(range), level - 1)
    ELSE IF GetBlockType(Head(range)) = "kBlockStart"
    THEN AfterBlock(Tail(range), level + 1)
    ELSE AfterBlock(Tail(range), level)

\* The tokens that follow the classes and pseudos a range starts with.
RECURSIVE AfterSimpleSelectors(_)
AfterSimpleSelectors(range) ==
    IF Len(range) >= 2 /\ IsDelimiter(range[1], ".") /\ range[2].type = "kIdentToken"
    THEN AfterSimpleSelectors(SubSeq(range, 3, Len(range)))
    ELSE IF range # <<>> /\ Head(range).type = "kColonToken"
    THEN LET colon == Tail(range)
             name == IF colon # <<>> /\ Head(colon).type = "kColonToken"
                     THEN Tail(colon) ELSE colon
         IN  IF name = <<>> THEN range
             ELSE IF Head(name).type = "kIdentToken"
             THEN AfterSimpleSelectors(Tail(name))
             ELSE IF Head(name).type = "kFunctionToken"
             THEN AfterSimpleSelectors(AfterBlock(Tail(name), 1))
             ELSE range
    ELSE range

\* The tokens that follow the compound selector a range starts with: its type
\* or universal selector, then its classes and pseudos.
AfterCompound(range) == AfterSimpleSelectors(ConsumeName(range).range)

\* The compound a range starts with is the last one of its complex selector:
\* the end of the range or a comma follows it.
IsLastCompoundWritten(range) ==
    LET rest == ConsumeWhitespace(AfterCompound(range))
    IN  rest = <<>> \/ Head(rest).type = "kCommaToken"

\* The compound a range starts with is written with a type or universal
\* selector.
HasTypeSelectorWritten(range) == ConsumeName(range).has_q_name

\* The namespace of a returned compound: the one of its tag selector, any
\* namespace when it has none.
NamespaceOfCompound(selector) ==
    IF \E k \in 1..Len(selector) : selector[k].match = "kTag"
    THEN selector[CHOOSE k \in 1..Len(selector) : selector[k].match = "kTag"].tag_uri
    ELSE g_star_atom

\* The calls of ConsumeCompoundSelector that returned the compound their range
\* starts with, written without a namespace prefix.
UnprefixedCompounds ==
    {i \in CallsOf("ConsumeCompoundSelector") :
        /\ Calls[i].selector # nullptr
        /\ Calls[i].rest = AfterCompound(Calls[i].range)
        /\ IsNull(ConsumeName(Calls[i].range).namespace_prefix)}

\* The compound of call i has no type or universal selector, lies in a context
\* that resists the default namespace and is the last one of its complex
\* selector.
IsResistingSubject(i) ==
    /\ ~HasTypeSelectorWritten(Calls[i].range)
    /\ Calls[i].entry.resist_default_namespace_
    /\ IsLastCompoundWritten(Calls[i].range)

C20_SubjectsIgnoreDefaultNamespace ==
    /\ phase = "ParseSelector"
    /\ sheet = DefaultNsStyleSheet
    /\ result.list # <<>>
    /\ \A j \in CallsOf("ConsumePseudo") : Calls[j].selector # nullptr
    =>  \A i \in UnprefixedCompounds :
            IsResistingSubject(i) =>
                \A k \in 1..Len(Calls[i].selector) : Calls[i].selector[k].match # "kTag"

(***************************************************************************)
(* C21: when a type selector is prepended to a compound.                   *)
(***************************************************************************)
\* The simple selectors ConsumeSimpleSelector returned.
SimpleSelectorsReturned ==
    {Head(Calls[j].selector) :
        j \in {c \in CallsOf("ConsumeSimpleSelector") : Calls[c].selector # nullptr}}

\* The calls of ConsumeCompoundSelector that returned a compound written
\* without a qualified name.
UnnamedCompounds ==
    {i \in CallsOf("ConsumeCompoundSelector") :
        /\ Calls[i].selector # nullptr
        /\ ~ConsumeName(Calls[i].range).has_q_name}

\* The default namespace in effect when the compound of call i was finished:
\* the wildcard without a stylesheet or when the default namespace is ignored.
EffectiveDefaultNamespace(i) ==
    IF \/ sheet.is_null
       \/ Calls[i].entry.ignore_default_namespace_
       \/ Calls[i].entry.resist_default_namespace_ /\ AtEndIgnoringWhitespace(Calls[i].rest)
    THEN g_star_atom
    ELSE sheet.default_namespace_

HasTagSelector(selector) == \E k \in 1..Len(selector) : selector[k].match = "kTag"

HasShadowCrossingSelector(selector) ==
    \E k \in 1..Len(selector) : NeedsImplicitShadowCombinatorForMatching(selector[k])

\* C21: a compound written without a qualified name gets a type/universal
\* selector only if the effective default namespace is not the wildcard or the
\* compound needs an implicit shadow-crossing combinator; when neither holds
\* the compound is returned unchanged: the simple selectors that were consumed,
\* linked as sub-selectors, and no tag node.
C21_TagPrependedOnlyIfNeeded ==
    phase = "ParseSelector" =>
        \A i \in UnnamedCompounds :
            /\ HasTagSelector(Calls[i].selector) =>
                   \/ EffectiveDefaultNamespace(i) # g_star_atom
                   \/ HasShadowCrossingSelector(Calls[i].selector)
            /\ /\ EffectiveDefaultNamespace(i) = g_star_atom
               /\ ~HasShadowCrossingSelector(Calls[i].selector)
               => /\ ~HasTagSelector(Calls[i].selector)
                  /\ \A k \in 1..Len(Calls[i].selector) :
                         /\ Calls[i].selector[k] \in SimpleSelectorsReturned
                         /\ Calls[i].selector[k].relation = "kSubSelector"

\* C21 witness: `.a:hover` was parsed without a stylesheet and returned as its
\* two simple selectors, with no tag node.
C21_Witness ==
    /\ phase = "ParseSelector"
    /\ sheet = NoStyleSheet
    /\ input = Piece_class_a \o Piece_hover
    /\ Len(result.list) = 1
    /\ Len(result.list[1]) = 2
    /\ ~HasTagSelector(result.list[1])
    /\ \E i \in UnnamedCompounds :
           /\ Calls[i].range = input
           /\ EffectiveDefaultNamespace(i) = g_star_atom
           /\ Calls[i].selector = result.list[1]

(***************************************************************************)
(* C22: the tag node of a compound with a host pseudo-class.               *)
(***************************************************************************)
\* A range starts with :host, :host( or :host-context(.
StartsWithHostPseudo(range) ==
    /\ PeekAt(range, 0).type = "kColonToken"
    /\ PeekAt(range, 1).type \in {"kIdentToken", "kFunctionToken"}
    /\ PeekAt(range, 1).value \in {Str_host, Str_host_context}

\* The calls of ConsumeCompoundSelector that returned a compound whose first
\* simple selector is written as a host pseudo-class.
HostCompounds ==
    {i \in CallsOf("ConsumeCompoundSelector") :
        /\ Calls[i].selector # nullptr
        /\ StartsWithHostPseudo(ConsumeName(Calls[i].range).range)}

\* The calls of ConsumeCompoundSelector that returned a compound that holds a
\* host pseudo-class.
CompoundsWithHostPseudo ==
    {i \in CallsOf("ConsumeCompoundSelector") :
        /\ Calls[i].selector # nullptr
        /\ \E k \in 1..Len(Calls[i].selector) : IsHostPseudoSelector(Calls[i].selector[k])}

\* C22: Every accepted compound that contains a host pseudo-class (:host,
\* :host-context) carries a universal tag node, explicit or marked implicit,
\* and the parsed results of `*:host` and `:host` differ.  (The claim as it is
\* stated.)
C22_AsStated ==
    phase = "ParseSelector" /\ result.list # <<>> =>
        \A i \in CompoundsWithHostPseudo : HasTagSelector(Calls[i].selector)

\* C22, amended: a compound whose first simple selector is a host pseudo-class
\* carries a tag node only when it is written with a type or universal
\* selector, and that node is then not marked implicit; written without one it
\* gets no tag node, whatever the default namespace.  So the parsed result of a
\* selector `*:host...` differs from the one of the same selector without `*`.
C22_HostKeepsWrittenTag ==
    phase = "ParseSelector" =>
        /\ \A i \in HostCompounds :
               IF ConsumeName(Calls[i].range).has_q_name
               THEN \E k \in 1..Len(Calls[i].selector) :
                        /\ Calls[i].selector[k].match = "kTag"
                        /\ ~Calls[i].selector[k].is_implicit
               ELSE ~HasTagSelector(Calls[i].selector)
        /\ /\ result.list # <<>>
           /\ Len(input) > Len(Piece_star)
           /\ SubSeq(input, 1, Len(Piece_star)) = Piece_star
           /\ StartsWithHostPseudo(Tail(input))
           => ParseSelector(Tail(input), mode, sheet).list # result.list

\* C22 witness: `*:host` was parsed under a default namespace and kept its
\* universal tag, not marked implicit, while `:host` parses to the host
\* pseudo-class alone.
C22_Witness ==
    /\ phase = "ParseSelector"
    /\ sheet = DefaultNsStyleSheet
    /\ input = Piece_star \o Piece_host_ident
    /\ Len(result.list) = 1
    /\ Len(result.list[1]) = 2
    /\ \E k \in 1..2 : result.list[1][k].match = "kTag" /\ ~result.list[1][k].is_implicit
    /\ \E k \in 1..2 : result.list[1][k].pseudo_type = "kPseudoHost"
    /\ Len(ParseSelector(Piece_host_ident, mode, sheet).list) = 1
    /\ Len(ParseSelector(Piece_host_ident, mode, sheet).list[1]) = 1

(***************************************************************************)
(* C23: the split of a compound at its shadow-crossing pseudo-elements.    *)
(***************************************************************************)
SplitCalls == CallsOf("SplitCompoundAtImplicitShadowCrossingCombinator")

\* A simple selector without its relation.
WithoutRelation(simple) == [simple EXCEPT !.relation = "kSubSelector"]

\* How many times a chain holds a simple selector.
Occurrences(chain, simple) ==
    Cardinality({k \in 1..Len(chain) : WithoutRelation(chain[k]) = simple})

\* The positions, after the first, where a compound holds a simple selector
\* that needs an implicit shadow combinator.
ShadowCrossings(compound) ==
    {k \in 2..Len(compound) : NeedsImplicitShadowCombinatorForMatching(compound[k])}

\* The greatest member of a set of numbers that has one.
Maximum(numbers) == CHOOSE k \in numbers : \A other \in numbers : other <= k

\* A compound cut before each of its shadow crossings: the part from the last
\* crossing on comes first, its last simple selector linked by the implicit
\* relation of the pseudo-element it starts with, then what is left of the
\* compound, cut the same way.
RECURSIVE CutAtShadowCrossings(_)
CutAtShadowCrossings(compound) ==
    IF ShadowCrossings(compound) = {} THEN compound
    ELSE LET crossing == Maximum(ShadowCrossings(compound))
             relation == GetImplicitShadowCombinatorForMatching(compound[crossing])
         IN  [k \in 1..(Len(compound) - crossing + 1) |->
                 IF k = Len(compound) - crossing + 1
                 THEN [compound[Len(compound)] EXCEPT !.relation = relation]
                 ELSE compound[crossing + k - 1]]
                 \o CutAtShadowCrossings(SubSeq(compound, 1, crossing - 1))

\* C23: SplitCompoundAtImplicitShadowCrossingCombinator keeps every simple
\* selector of the compound exactly once; every simple selector that needs an
\* implicit shadow combinator and is not the first node of the compound becomes
\* the head of its own compound, joined to the selectors written to its left by
\* its own implicit shadow relation and never by the sub-selector relation; a
\* compound with two such pseudo-elements is split twice, the pseudo-element
\* written last being the head of the result.
C23_SplitAtShadowCrossings ==
    phase = "ParseSelector" =>
        \A i \in SplitCalls :
            LET compound == Calls[i].list[1]
                split == Calls[i].selector
            IN  /\ Len(split) = Len(compound)
                /\ \A k \in 1..Len(compound) :
                       Occurrences(split, WithoutRelation(compound[k]))
                           = Occurrences(compound, WithoutRelation(compound[k]))
                /\ split = CutAtShadowCrossings(compound)
                /\ \A k \in ShadowCrossings(compound) :
                       \E q \in 1..Len(split) :
                           /\ WithoutRelation(split[q]) = WithoutRelation(compound[k])
                           /\ q = 1 \/ split[q - 1].relation # "kSubSelector"
                           /\ \E e \in q..(Len(split) - 1) :
                                  /\ \A m \in q..(e - 1) : split[m].relation = "kSubSelector"
                                  /\ split[e].relation =
                                         GetImplicitShadowCombinatorForMatching(compound[k])
                                  /\ split[e].relation # "kSubSelector"
                                  /\ \E left \in (e + 1)..Len(split) :
                                         /\ \A m \in (e + 1)..(left - 1) :
                                                split[m].relation = "kSubSelector"
                                         /\ left = Len(split)
                                                \/ split[left].relation # "kSubSelector"
                                         /\ WithoutRelation(split[left])
                                                = WithoutRelation(compound[k - 1])
                /\ ShadowCrossings(compound) # {} =>
                       WithoutRelation(Head(split))
                           = WithoutRelation(compound[Maximum(ShadowCrossings(compound))])

\* C23 witness: `::slotted(.a)::placeholder` was parsed.  The compound of the
\* universal tag, ::slotted(.a) and ::placeholder was split twice: ::placeholder
\* heads the result, linked by the UA-shadow relation to ::slotted(.a), which
\* is linked by the shadow-slot relation to the tag.
C23_Witness ==
    /\ phase = "ParseSelector"
    /\ input = Piece_slotted \o Piece_class_a \o Piece_close \o Piece_placeholder
    /\ Len(result.list) = 1
    /\ Len(result.list[1]) = 3
    /\ result.list[1][1].pseudo_type = "kPseudoPlaceholder"
    /\ result.list[1][1].relation = "kUAShadow"
    /\ result.list[1][2].pseudo_type = "kPseudoSlotted"
    /\ result.list[1][2].relation = "kShadowSlot"
    /\ result.list[1][3].match = "kTag"
    /\ \E i \in SplitCalls :
           /\ Cardinality(ShadowCrossings(Calls[i].list[1])) = 2
           /\ Calls[i].selector = result.list[1]

(***************************************************************************)
(* C24: the pseudo-elements of one compound.                               *)
(***************************************************************************)
\* The compounds ConsumeCompoundSelector built, as they were written, while
\* nothing had failed.
AcceptedCompounds ==
    {Calls[i].list[1] : i \in {c \in SplitCalls : ~Calls[c].exit.failed_parsing_}}

\* The positions of the pseudo-elements of a compound.
PseudoElementsOf(compound) ==
    {k \in 1..Len(compound) : compound[k].match = "kPseudoElement"}

\* The pseudo-elements that may follow another pseudo-element in a compound.
MayFollowPseudoElement(first, second) ==
    \/ first \in {"kPseudoBefore", "kPseudoAfter"} /\ second = "kPseudoMarker"
    \/ /\ first = "kPseudoSlotted"
       /\ second \in {"kPseudoBefore", "kPseudoAfter", "kPseudoMarker", "kPseudoPlaceholder",
                      "kPseudoFileSelectorButton"}
    \/ /\ first = "kPseudoPart"
       /\ second \in {"kPseudoBefore", "kPseudoAfter", "kPseudoPlaceholder",
                      "kPseudoFileSelectorButton", "kPseudoFirstLine", "kPseudoFirstLetter",
                      "kPseudoSelection"}

SaturatedValue(token) ==
    CASE token.numeric_beyond_int = 1 -> IntMax
      [] token.numeric_beyond_int = -1 -> IntMin
      [] OTHER -> token.numeric_value

IsIntegerToken(token, type) ==
    token.type = type /\ token.numeric_value_type = "kIntegerValueType"

\* The argument ends with an unsigned integer written behind a minus sign: the
\* delimiter -, or the - an identifier or a unit ends with.
EndsWithNegatedB(range) ==
    /\ Len(range) >= 2
    /\ IsIntegerToken(range[Len(range)], "kNumberToken")
    /\ range[Len(range)].numeric_sign = "kNoSign"
    /\ \E k \in 1..(Len(range) - 1) :
           \/ IsDelimiter(range[k], "-")
           \/ /\ range[k].type \in {"kIdentToken", "kDimensionToken"}
              /\ range[k].value[Len(range[k].value)] = "-"

\* C25: when ConsumeANPlusB negates B because of a minus sign, a B equal to the
\* least int becomes the greatest int and any other B its exact negation (B,
\* written without a sign, is never below zero, so it is never the least int);
\* for every accepted argument A and B lie within the range of int: the value
\* of an integer token beyond that range is clamped to it, and the digits of
\* n-<digits> are refused when they leave it.
C25_ANPlusBWithinInt ==
    phase = "ConsumeANPlusB" /\ result.nth.ok =>
        /\ result.nth.first \in IntMin..IntMax
        /\ result.nth.second \in IntMin..IntMax
        /\ EndsWithNegatedB(input) /\ AtEnd(result.nth.range) =>
               /\ SaturatedValue(input[Len(input)]) >= 0
               /\ result.nth.second = -SaturatedValue(input[Len(input)])
        /\ IsIntegerToken(input[1], "kDimensionToken") =>
               result.nth.first = SaturatedValue(input[1])
        /\ IsIntegerToken(input[1], "kNumberToken") =>
               result.nth.first = 0 /\ result.nth.second = SaturatedValue(input[1])
        /\ input[1] = IdentToken(Str_n_2147483648) => result.nth.second = IntMin
        /\ input[1] # IdentToken(Str_n_2147483649)

\* C25 witness: `n - B` was consumed with a B above the greatest int: B was
\* clamped to the greatest int and negated.
C25_Witness ==
    /\ phase = "ConsumeANPlusB"
    /\ input = <<IdentToken(Str_n), DelimiterToken("-"),
                 BeyondInt(NumberToken(0, "kIntegerValueType", "kNoSign"))>>
    /\ result.nth.ok
    /\ result.nth.first = 1
    /\ result.nth.second = -IntMax

RelativeRelations ==
    {"kRelativeDescendant", "kRelativeChild", "kRelativeDirectAdjacent",
     "kRelativeIndirectAdjacent"}

IsRelativeAnchor(simple) ==
    simple.match = "kPseudoClass" /\ simple.pseudo_type = "kPseudoRelativeAnchor"

\* The relative form of the combinator a member of a :has() argument starts
\* with, read from its tokens.
LeadingRelation(member) ==
    LET first == Peek(ConsumeWhitespace(member))
    IN  IF first.type = "kDelimiterToken" /\ first.delimiter = ">" THEN "kRelativeChild"
        ELSE IF first.type = "kDelimiterToken" /\ first.delimiter = "+"
        THEN "kRelativeDirectAdjacent"
        ELSE IF first.type = "kDelimiterToken" /\ first.delimiter = "~"
        THEN "kRelativeIndirectAdjacent"
        ELSE "kRelativeDescendant"

\* The members a relative selector list kept start at the anchor: the leftmost
\* simple selector of each is the anchor, and the one before it is linked to
\* it by a relative combinator, the relative form of the combinator the
\* member is written with (the members are matched to the ones written when
\* none was dropped).
MembersStartAtAnchor ==
    \A i \in CallsOf("ConsumeForgivingRelativeSelectorList") :
        LET kept == Calls[i].list
            written == CommaSpans(Calls[i].range, <<>>, 0)
        IN  \A m \in 1..Len(kept) :
                /\ Len(kept[m]) >= 2
                /\ IsRelativeAnchor(kept[m][Len(kept[m])])
                /\ kept[m][Len(kept[m]) - 1].relation \in RelativeRelations
                /\ Len(kept) = Len(written) =>
                       kept[m][Len(kept[m]) - 1].relation = LeadingRelation(written[m])

\* In a selector and the selector lists nested in it, a relative combinator
\* links only the first compound of a member of a :has() list to the last
\* simple selector of the member.
RECURSIVE RelativeCombinatorsOnlyAtAnchor(_, _)
RelativeCombinatorsOnlyAtAnchor(selector, in_has) ==
    \A k \in 1..Len(selector) :
        /\ selector[k].relation \in RelativeRelations => in_has /\ k = Len(selector) - 1
        /\ \A m \in 1..Len(selector[k].selector_list) :
               RelativeCombinatorsOnlyAtAnchor(selector[k].selector_list[m],
                                               selector[k].pseudo_type = "kPseudoHas")

\* In a selector and the selector lists nested in it, the anchor is only the
\* last simple selector of a member of a :has() list.
RECURSIVE AnchorOnlyLeftmostInHas(_, _)
AnchorOnlyLeftmostInHas(selector, in_has) ==
    \A k \in 1..Len(selector) :
        /\ IsRelativeAnchor(selector[k]) => in_has /\ k = Len(selector)
        /\ \A m \in 1..Len(selector[k].selector_list) :
               AnchorOnlyLeftmostInHas(selector[k].selector_list[m],
                                       selector[k].pseudo_type = "kPseudoHas")

\* What holds of the anchor and the relative combinators: the kept members of
\* every :has() start at the anchor, and relative combinators occur nowhere
\* else.
C26_RelativeMembers ==
    phase = "ParseSelector" =>
        /\ MembersStartAtAnchor
        /\ \A s \in 1..Len(result.list) :
               RelativeCombinatorsOnlyAtAnchor(result.list[s], FALSE)

\* `:has(~.a` was parsed: the member is kept, .a linked to the anchor as its
\* indirect-adjacent sibling.
C26_RelativeMembersWitness ==
    /\ phase = "ParseSelector"
    /\ input = Piece_has \o Piece_tilde \o Piece_class_a
    /\ Len(result.list) = 1
    /\ Len(result.list[1][1].selector_list) = 1
    /\ Len(result.list[1][1].selector_list[1]) = 2
    /\ result.list[1][1].selector_list[1][1].relation = "kRelativeIndirectAdjacent"
    /\ IsRelativeAnchor(result.list[1][1].selector_list[1][2])

\* C26: every member kept in a :has() argument list ends, at its leftmost
\* position, in the -internal-relative-anchor pseudo-class, and the first
\* compound of the member is linked to that anchor by the relative form of
\* the combinator the member starts with; relative combinators and the
\* anchor occur nowhere else in a selector that ParseSelector returns.
C26_AnchorOnlyInHas ==
    phase = "ParseSelector" =>
        /\ MembersStartAtAnchor
        /\ \A s \in 1..Len(result.list) :
               /\ RelativeCombinatorsOnlyAtAnchor(result.list[s], FALSE)
               /\ AnchorOnlyLeftmostInHas(result.list[s], FALSE)

\* A selector holds a pseudo-class written in it (any but the anchor at the
\* end of a member of a :has() list), in its chain or in a selector list
\* nested in it at any depth.
RECURSIVE HoldsWrittenPseudoClass(_, _)
HoldsWrittenPseudoClass(selector, in_has) ==
    \E k \in 1..Len(selector) :
        \/ /\ selector[k].match = "kPseudoClass"
           /\ ~(in_has /\ k = Len(selector) /\ IsRelativeAnchor(selector[k]))
        \/ \E m \in 1..Len(selector[k].selector_list) :
               HoldsWrittenPseudoClass(selector[k].selector_list[m],
                                       selector[k].pseudo_type = "kPseudoHas")

\* A selector holds, in the list of an :is(), :where() or :not() at any depth,
\* a member with a combinator.
RECURSIVE HoldsComplexLogicalCombination(_)
HoldsComplexLogicalCombination(selector) ==
    \E k \in 1..Len(selector) :
        \E m \in 1..Len(selector[k].selector_list) :
            \/ /\ selector[k].pseudo_type \in {"kPseudoIs", "kPseudoWhere", "kPseudoNot"}
               /\ \E j \in 1..Len(selector[k].selector_list[m]) :
                      selector[k].selector_list[m][j].relation # "kSubSelector"
            \/ HoldsComplexLogicalCombination(selector[k].selector_list[m])

\* The calls of ConsumePseudo that returned a :has().
AcceptedHas ==
    {i \in CallsOf("ConsumePseudo") :
        /\ Calls[i].selector # nullptr
        /\ Calls[i].selector[1].pseudo_type = "kPseudoHas"}

\* The tokens of the :has() a call of ConsumePseudo was given: the block of
\* the function and what it holds.
HasBlock(call) == SubSeq(call.range, 1, Len(call.range) - Len(call.rest))

\* C27: a :has() that ConsumePseudo returns is marked contains-pseudo if its
\* list holds a written pseudo-class, and marked
\* contains-complex-logical-combinations if its list holds, in an :is(),
\* :where() or :not(), a member with a combinator.  The marks come from its own
\* argument only: a :has() with no colon after its name in its block has
\* neither mark, whatever the other :has() of the input hold, and the two
\* found_ members are on return from ConsumePseudo as they were on entry.
C27_HasMarks ==
    phase = "ParseSelector" =>
        \A i \in AcceptedHas :
            LET has == Calls[i].selector[1]
            IN  /\ (\E m \in 1..Len(has.selector_list) :
                        HoldsWrittenPseudoClass(has.selector_list[m], TRUE))
                       => has.contains_pseudo_inside_has
                /\ (\E m \in 1..Len(has.selector_list) :
                        HoldsComplexLogicalCombination(has.selector_list[m]))
                       => has.contains_complex_logical_combinations_inside_has
                /\ (\A k \in 3..Len(HasBlock(Calls[i])) :
                        HasBlock(Calls[i])[k].type # "kColonToken")
                       => /\ ~has.contains_pseudo_inside_has
                          /\ ~has.contains_complex_logical_combinations_inside_has
                /\ Calls[i].exit.found_pseudo_in_has_argument_ =
                       Calls[i].entry.found_pseudo_in_has_argument_
                /\ Calls[i].exit.found_complex_logical_combinations_in_has_argument_ =
                       Calls[i].entry.found_complex_logical_combinations_in_has_argument_

\* C27 witness: `:has(:is(.a .a)):has(.a` was parsed.  The first :has() has
\* both marks, the second neither.
C27_Witness ==
    /\ phase = "ParseSelector"
    /\ input = Piece_has \o Piece_is_a_space_a \o Piece_close \o Piece_has \o Piece_class_a
    /\ Len(result.list) = 1
    /\ Len(result.list[1]) = 2
    /\ \A k \in 1..2 : result.list[1][k].pseudo_type = "kPseudoHas"
    /\ \E k \in 1..2 :
           /\ HoldsComplexLogicalCombination(result.list[1][k].selector_list[1])
           /\ result.list[1][k].contains_pseudo_inside_has
           /\ result.list[1][k].contains_complex_logical_combinations_inside_has
    /\ \E k \in 1..2 :
           /\ ~HoldsWrittenPseudoClass(result.list[1][k].selector_list[1], TRUE)
           /\ ~result.list[1][k].contains_pseudo_inside_has
           /\ ~result.list[1][k].contains_complex_logical_combinations_inside_has

\* The token of the name in the range of a call of ConsumePseudo, after one
\* colon or two.
PseudoNameToken(range) ==
    IF Len(range) >= 2 /\ range[2].type = "kColonToken"
    THEN (IF Len(range) >= 3 THEN range[3] ELSE EOFToken)
    ELSE IF Len(range) >= 2 THEN range[2] ELSE EOFToken

\* The match ConsumePseudo sets for the colons written.
MatchOfColons(range) ==
    IF Len(range) >= 2 /\ range[2].type = "kColonToken" THEN "kPseudoElement"
    ELSE "kPseudoClass"

\* The calls of ConsumePseudo on colons followed by a name.
NamedPseudos ==
    {i \in CallsOf("ConsumePseudo") :
        PseudoNameToken(Calls[i].range).type \in {"kIdentToken", "kFunctionToken"}}

HasPrefix(name, prefix) ==
    Len(name) >= Len(prefix) /\ SubSeq(name, 1, Len(prefix)) = prefix

\* The type of a name the table does not hold, by its prefix.
TypeByPrefix(name) ==
    IF HasPrefix(name, Str__webkit_) THEN "kPseudoWebKitCustomElement"
    ELSE IF HasPrefix(name, Str__internal_) THEN "kPseudoBlinkInternalElement"
    ELSE IF HasPrefix(name, Str___) THEN "kPseudoState"
    ELSE "kPseudoUnknown"

\* The same with every name that starts with a hyphen, and with neither
\* -internal- nor --, taken for a vendor custom pseudo-element.
TypeByHyphen(name) ==
    IF HasPrefix(name, Str__internal_) THEN "kPseudoBlinkInternalElement"
    ELSE IF HasPrefix(name, Str___) THEN "kPseudoState"
    ELSE IF HasPrefix(name, <<"-">>) THEN "kPseudoWebKitCustomElement"
    ELSE "kPseudoUnknown"

\* The selector ConsumePseudo makes of the colons and the name of a call.
TypedPseudo(call) ==
    UpdatePseudoType([NewSelector EXCEPT !.match = MatchOfColons(call.range)],
                     PseudoNameToken(call.range).value,
                     PseudoNameToken(call.range).type = "kFunctionToken", mode)

\* A pseudo whose type is unknown makes ConsumePseudo return no selector, and
\* a pseudo it returns has the type and the match UpdatePseudoType gave it.
UnknownPseudoIsNotReturned ==
    \A i \in NamedPseudos :
        /\ TypedPseudo(Calls[i]).pseudo_type = "kPseudoUnknown" => Calls[i].selector = nullptr
        /\ Calls[i].selector # nullptr =>
               /\ Calls[i].selector[1].pseudo_type = TypedPseudo(Calls[i]).pseudo_type
               /\ Calls[i].selector[1].match = TypedPseudo(Calls[i]).match

\* C28 as stated: ParsePseudoType maps a name the table does not hold to the
\* vendor custom pseudo-element type when the name starts with a hyphen, to
\* the internal-element type when it starts with -internal-, to the
\* custom-state pseudo-class when it starts with --, and to unknown otherwise;
\* a pseudo whose type is unknown makes ConsumePseudo return no selector.
C28_AsStated ==
    phase = "ParseSelector" =>
        /\ \A i \in NamedPseudos :
               LET token == PseudoNameToken(Calls[i].range)
                   name == LowerASCII(token.value)
                   has_arguments == token.type = "kFunctionToken"
               IN  NameToPseudoType(name, has_arguments) = "kPseudoUnknown" =>
                       ParsePseudoType(name, has_arguments) = TypeByHyphen(name)
        /\ UnknownPseudoIsNotReturned

\* C28: ParsePseudoType maps a name the table does not hold to the vendor
\* custom pseudo-element type when the name starts with -webkit-, to the
\* internal-element type when it starts with -internal-, to the custom-state
\* pseudo-class when it starts with --, and to unknown otherwise, also when it
\* starts with another hyphen prefix; a pseudo whose type is unknown makes
\* ConsumePseudo return no selector.
C28_FallbackByPrefix ==
    phase = "ParseSelector" =>
        /\ \A i \in NamedPseudos :
               LET token == PseudoNameToken(Calls[i].range)
                   name == LowerASCII(token.value)
                   has_arguments == token.type = "kFunctionToken"
               IN  NameToPseudoType(name, has_arguments) = "kPseudoUnknown" =>
                       ParsePseudoType(name, has_arguments) = TypeByPrefix(name)
        /\ UnknownPseudoIsNotReturned

\* C28 witness: `::-moz-foo` was parsed.  The name starts with a hyphen, its
\* type is unknown, ConsumePseudo returned no selector and ParseSelector the
\* empty list.
C28_Witness ==
    /\ phase = "ParseSelector"
    /\ input = <<ColonToken, ColonToken, IdentToken(Str__moz_foo)>>
    /\ ParsePseudoType(Str__moz_foo, FALSE) = "kPseudoUnknown"
    /\ \E i \in NamedPseudos :
           /\ Calls[i].range = input
           /\ Calls[i].selector = nullptr
    /\ result.list = <<>>

\* The iterations of the loops of the run that went on to another iteration.
Iterations == result.parser.loop_log

\* The tokens a range ends with.
IsSuffix(rest, range) ==
    /\ Len(rest) <= Len(range)
    /\ rest = SubSeq(range, Len(range) - Len(rest) + 1, Len(range))

\* A range lies in another one, token by token.
IsSubRange(inner, outer) ==
    \E first \in 1..(Len(outer) + 1) :
        /\ first + Len(inner) - 1 <= Len(outer)
        /\ inner = SubSeq(outer, first, first + Len(inner) - 1)

\* The number of tokens in a block whose opening token was taken, at depth
\* level inside it, up to the token that closes it or to the end.
RECURSIVE ContentsLength(_, _)
ContentsLength(range, level) ==
    IF range = <<>> THEN 0
    ELSE IF GetBlockType(Head(range)) = "kBlockEnd"
    THEN IF level = 1 THEN 0 ELSE 1 + ContentsLength(Tail(range), level - 1)
    ELSE IF GetBlockType(Head(range)) = "kBlockStart"
    THEN 1 + ContentsLength(Tail(range), level + 1)
    ELSE 1 + ContentsLength(Tail(range), level)

\* The tokens inside the block of the functional pseudo a range starts with.
BlockOfPseudo(range) ==
    LET colons == IF MatchOfColons(range) = "kPseudoElement" THEN 2 ELSE 1
        inside == SubSeq(range, colons + 2, Len(range))
    IN  SubSeq(inside, 1, ContentsLength(inside, 1))

\* The calls recorded while call i was running.
CallsInside(i) ==
    {j \in Calls[i].first..(i - 1) :
        Calls[j].fn # "SplitCompoundAtImplicitShadowCrossingCombinator"}

\* The methods that return a selector and are called again by a loop when
\* they returned one.
ReturnsSelector ==
    {"ConsumeSimpleSelector", "ConsumePseudo", "ConsumeCompoundSelector"}

\* C29: in a run of ParseSelector or SupportsComplexSelector, every
\* iteration of the selector-list, forgiving-list, complex-selector,
\* compound-selector and ::part() loops that goes on to another iteration
\* leaves a range that is a strictly shorter end of the one it started with,
\* and a method whose return of a selector makes a loop go on has consumed at
\* least one token; every method leaves an end of its range, and a method
\* called while another runs is given a range no longer than that one's,
\* strictly shorter when it is the same method again or when the outer one is
\* ConsumePseudo, whose argument is parsed from inside the block of its
\* function token.
C29_LoopsConsumeAndDescentShrinks ==
    phase # "build" =>
        /\ \A k \in 1..Len(Iterations) :
               /\ Len(Iterations[k].after) < Len(Iterations[k].before)
               /\ IsSuffix(Iterations[k].after, Iterations[k].before)
        /\ \A i \in 1..Len(Calls) :
               /\ Calls[i].fn # "SplitCompoundAtImplicitShadowCrossingCombinator" =>
                      IsSuffix(Calls[i].rest, Calls[i].range)
               /\ (Calls[i].fn \in ReturnsSelector /\ Calls[i].selector # nullptr) =>
                      Len(Calls[i].rest) < Len(Calls[i].range)
               /\ \A j \in CallsInside(i) :
                      /\ Len(Calls[j].range) <= Len(Calls[i].range)
                      /\ Calls[j].fn = Calls[i].fn =>
                             Len(Calls[j].range) < Len(Calls[i].range)
                      /\ Calls[i].fn = "ConsumePseudo" =>
                             /\ Len(Calls[j].range) < Len(Calls[i].range)
                             /\ IsSubRange(Calls[j].range, BlockOfPseudo(Calls[i].range))

\* C29 witness: `:is(.a,.a` was parsed by ParseSelector.  The forgiving list
\* went on after its comma and the compounds after their class selectors, and
\* the two members were parsed by calls made inside the call of ConsumePseudo,
\* each on a range shorter than the five tokens after the function token.
C29_Witness ==
    /\ phase = "ParseSelector"
    /\ input = Piece_is \o Piece_class_a \o Piece_comma \o Piece_class_a
    /\ \E k \in 1..Len(Iterations) :
           /\ Iterations[k].loop = "ConsumeForgivingComplexSelectorList"
           /\ Len(Iterations[k].before) = 5
           /\ Len(Iterations[k].after) = 2
    /\ \E k \in 1..Len(Iterations) : Iterations[k].loop = "ConsumeCompoundSelector"
    /\ \E i \in CallsOf("ConsumePseudo") :
           /\ Calls[i].range = input
           /\ \E j \in CallsInside(i) :
                  /\ Calls[j].fn = "ConsumeCompoundSelector"
                  /\ Len(Calls[j].range) = 2
    /\ Len(result.list) = 1

\* The tokens inside the block of the attribute selector the input starts
\* with.
AttributeBlock == SubSeq(Tail(input), 1, ContentsLength(Tail(input), 1))

\* The names ConsumeAttribute resolves under the style sheet.
ValidAttributeNames ==
    {Name_x, Name_star_x, Name_bar_x} \cup (IF sheet.is_null THEN {} ELSE {Name_ns_x})

\* The qualified name of each of them: an attribute without a prefix has the
\* null namespace.
QualifiedAttributeName(name) ==
    CASE name = Name_x -> <<g_null_atom, Str_x, g_null_atom>>
      [] name = Name_star_x -> <<g_star_atom, Str_x, g_star_atom>>
      [] name = Name_bar_x -> <<g_empty_atom, Str_x, g_null_atom>>
      [] name = Name_ns_x -> <<Str_ns, Str_x, Uri_U>>

\* The match of each operator.
ValidAttributeOperators ==
    {<<DelimiterToken("=")>>, <<PlainToken("kIncludeMatchToken")>>,
     <<PlainToken("kDashMatchToken")>>, <<PlainToken("kPrefixMatchToken")>>,
     <<PlainToken("kSuffixMatchToken")>>, <<PlainToken("kSubstringMatchToken")>>}

MatchOfOperator(operator) ==
    CASE operator = <<DelimiterToken("=")>> -> "kAttributeExact"
      [] operator = <<PlainToken("kIncludeMatchToken")>> -> "kAttributeList"
      [] operator = <<PlainToken("kDashMatchToken")>> -> "kAttributeHyphen"
      [] operator = <<PlainToken("kPrefixMatchToken")>> -> "kAttributeBegin"
      [] operator = <<PlainToken("kSuffixMatchToken")>> -> "kAttributeEnd"
      [] operator = <<PlainToken("kSubstringMatchToken")>> -> "kAttributeContain"

\* The values: an identifier or a string, after whitespace or not (an
\* identifier that follows the operator is the value, whatever its name).
ValidAttributeValues ==
    {<<IdentToken(Str_a)>>, <<StringToken(Str_a)>>}
        \cup {<<WhitespaceToken, IdentToken(value)>> : value \in {Str_i, Str_s, Str_x}}

ValidAttributeFlags ==
    {<<>>, <<WhitespaceToken, IdentToken(Str_i)>>}
        \cup (IF CSSCaseSensitiveSelectorEnabled
              THEN {<<WhitespaceToken, IdentToken(Str_s)>>} ELSE {})

MatchTypeOfFlag(flag) ==
    CASE flag = <<>> -> "kCaseSensitive"
      [] flag = <<WhitespaceToken, IdentToken(Str_i)>> -> "kCaseInsensitive"
      [] flag = <<WhitespaceToken, IdentToken(Str_s)>> -> "kCaseSensitiveAlways"

TrailingWhitespace == {<<>>, <<WhitespaceToken>>}

\* What follows the first tokens of a range.
After(range, taken) == SubSeq(range, Len(taken) + 1, Len(range))

\* A block has the form `[name]` or `[name op value flag]`.
IsAttributeSetBlock(block) ==
    \E name \in ValidAttributeNames :
        HasPrefix(block, name) /\ After(block, name) \in TrailingWhitespace

IsAttributeMatchBlock(block) ==
    \E name \in ValidAttributeNames :
        /\ HasPrefix(block, name)
        /\ \E operator \in ValidAttributeOperators :
               /\ HasPrefix(After(block, name), operator)
               /\ \E value \in ValidAttributeValues :
                      /\ HasPrefix(After(block, name \o operator), value)
                      /\ \E flag \in ValidAttributeFlags, space \in TrailingWhitespace :
                             After(block, name \o operator \o value) = flag \o space

\* The calls of ConsumeSimpleSelector on the attribute selector the input
\* starts with.
AttributeCalls ==
    {i \in CallsOf("ConsumeSimpleSelector") : Calls[i].range = input}

IsAccepted(call) == call.selector # nullptr /\ ~call.exit.failed_parsing_

IsAttribute(simple, qualified_name) ==
    /\ simple.tag_prefix = qualified_name[1]
    /\ simple.tag_local = qualified_name[2]
    /\ simple.tag_uri = qualified_name[3]

\* C30: ConsumeAttribute accepts `[name]` as attribute-exists and
\* `[name op value flag]` with = as exact, ~= as list-contains, |= as
\* hyphen-prefix, ^= as begins-with, $= as ends-with and *= as substring, the
\* value an identifier or a string, and no flag, the flag i (case-insensitive)
\* or, only when the case-sensitive feature is enabled, the flag s.  Every
\* other block (the name *, no name, a prefix that does not resolve, another
\* operator token, a value of another kind or none, another flag, a token
\* left in the block) gives no selector or sets the failure flag.  An
\* attribute name without a prefix has the null namespace under every style
\* sheet, also one with a default namespace.
C30_ConsumeAttribute ==
    phase = "ParseSelector" =>
        \A i \in AttributeCalls :
            /\ \A name \in {n \in ValidAttributeNames : HasPrefix(AttributeBlock, n)} :
                   /\ After(AttributeBlock, name) \in TrailingWhitespace =>
                          /\ IsAccepted(Calls[i])
                          /\ Calls[i].selector[1].match = "kAttributeSet"
                          /\ Calls[i].selector[1].attr_match = "kCaseSensitive"
                          /\ IsAttribute(Calls[i].selector[1], QualifiedAttributeName(name))
                   /\ \A operator \in ValidAttributeOperators, value \in ValidAttributeValues :
                          \A flag \in ValidAttributeFlags, space \in TrailingWhitespace :
                              After(AttributeBlock, name) =
                                      operator \o value \o flag \o space =>
                                  /\ IsAccepted(Calls[i])
                                  /\ Calls[i].selector[1].match = MatchOfOperator(operator)
                                  /\ Calls[i].selector[1].value = value[Len(value)].value
                                  /\ Calls[i].selector[1].attr_match = MatchTypeOfFlag(flag)
                                  /\ IsAttribute(Calls[i].selector[1],
                                                 QualifiedAttributeName(name))
            /\ ~(IsAttributeSetBlock(AttributeBlock) \/ IsAttributeMatchBlock(AttributeBlock))
                   => ~IsAccepted(Calls[i])

\* C30 witness: `[x^="a" i]` was parsed under the style sheet with the
\* default namespace "D".  The selector is begins-with, case-insensitive, its
\* attribute x in the null namespace.
C30_Witness ==
    /\ phase = "ParseSelector"
    /\ sheet = DefaultNsStyleSheet
    /\ input = <<LeftBracketToken>> \o Name_x \o <<PlainToken("kPrefixMatchToken")>>
                   \o <<StringToken(Str_a)>> \o <<WhitespaceToken, IdentToken(Str_i)>>
                   \o <<RightBracketToken>>
    /\ \E i \in AttributeCalls :
           /\ IsAccepted(Calls[i])
           /\ Calls[i].selector[1].match = "kAttributeBegin"
           /\ Calls[i].selector[1].attr_match = "kCaseInsensitive"
           /\ Calls[i].selector[1].tag_uri = g_null_atom
    /\ Len(result.list) = 1
====
